---- MODULE Spec2Model ----
(***************************************************************************)
(* PC-BASIC values.py: tagged values, coercion, arithmetic, comparison,    *)
(* the floating point fault handler, the number tokeniser and the number   *)
(* formatter, and the user function call value_fn of functions.py, as a    *)
(* state machine.                                                          *)
(*                                                                         *)
(* A Value is the pair (sigil, bytes) of the source.  The handler's flag,  *)
(* the display surface and the outcome of the operation in progress are    *)
(* the state.  The Microsoft Binary Format library (fp), the error module, *)
(* the token table (basictoken), the stream helpers (util) and the string  *)
(* space are not part of values.py; they are modelled from their           *)
(* documented contract.                                                    *)
(***************************************************************************)
EXTENDS Integers, Sequences, FiniteSets, TLC

VARIABLES
    do_raise,       \* MathErrorHandler._do_raise
    has_screen,     \* MathErrorHandler._screen is not None
    screen,         \* the lines written to the display surface, oldest first
    before,         \* the display as it was when the operation last called began
    double_math,    \* Values._double_math
    pc,             \* "ready": no call in progress; "done": a call has ended
    op,             \* the operation last called
    args,           \* its operands
    result,         \* its outcome
    user_function_parsing,  \* Functions.user_function_parsing
    scalars,        \* session.scalars: the value of each scalar that exists
    fn_stack        \* the value_fn calls in progress, innermost last

fn_vars == <<user_function_parsing, scalars, fn_stack>>
vars == <<do_raise, has_screen, screen, before, double_math, pc, op, args, result,
          user_function_parsing, scalars, fn_stack>>

(***************************************************************************)
(* Bounds of the model.                                                    *)
(***************************************************************************)
\* operands are drawn from -Near..Near and from Edge values at each end of
\* the 16 bit ranges
Near == 7
Edge == 1
\* calls are made while fewer than MaxLines lines are on the display
MaxLines == 1
\* every input of at most MaxLen characters of the Alphabet is tokenised
MaxLen == 3

\* stands for a Python integer beyond every range the code compares with
Huge == 2^30

(***************************************************************************)
(* Type sigils and sizes.                                                  *)
(***************************************************************************)
INT == "%"
SNG == "!"
DBL == "#"
STR == "$"

TYPE_TO_SIZE == [t \in {STR, INT, SNG, DBL} |->
    CASE t = STR -> 3 [] t = INT -> 2 [] t = SNG -> 4 [] t = DBL -> 8]

SIZE_TO_TYPE == [n \in {2, 3, 4, 8} |->
    CASE n = 2 -> INT [] n = 3 -> STR [] n = 4 -> SNG [] n = 8 -> DBL]

bytearray(n) == [i \in 1..n |-> 0]

Value(sigil, bytes) == [tag |-> sigil, bytes |-> bytes]

null(sigil) == Value(sigil, bytearray(TYPE_TO_SIZE[sigil]))

from_bytes(token_bytes) == Value(SIZE_TO_TYPE[Len(token_bytes)], token_bytes)

to_bytes(basic_val) == basic_val.bytes

(***************************************************************************)
(* Error codes (error module) and Python exception classes.                *)
(***************************************************************************)
IFC == "Illegal function call"
OVERFLOW == "Overflow"
DIVISION_BY_ZERO == "Division by zero"
TYPE_MISMATCH == "Type mismatch"

ValueError == "ValueError"
OverflowError == "OverflowError"
ZeroDivisionError == "ZeroDivisionError"
FloatingPointError == "FloatingPointError"

\* the message of RunError(code), as written to the display
message(code) == code

(***************************************************************************)
(* Outcomes.  An operation ends with a value, a Python integer, a Python   *)
(* boolean, a RunError carrying an error code, or a Python exception       *)
(* (ValueError or an ArithmeticError) carrying an optional fp.Float.  Each *)
(* outcome also carries the display as the operation left it.              *)
(***************************************************************************)
NoValue == Value("", <<>>)
NoFloat == [cls |-> "", neg |-> FALSE, man |-> 0, low |-> <<>>, exp |-> 0]

Outcome(kind, val, val2, num, err, earg, scr) ==
    [kind |-> kind, val |-> val, val2 |-> val2, num |-> num, err |-> err,
     earg |-> earg, screen |-> scr]

Ret(v, scr) == Outcome("value", v, NoValue, 0, "", NoFloat, scr)
RetPair(v, w, scr) == Outcome("pair", v, w, 0, "", NoFloat, scr)
RetInt(n, scr) == Outcome("int", NoValue, NoValue, n, "", NoFloat, scr)
RetBool(b, scr) ==
    Outcome("bool", NoValue, NoValue, IF b THEN 1 ELSE 0, "", NoFloat, scr)
RunError(code, scr) == Outcome("RunError", NoValue, NoValue, 0, code, NoFloat, scr)
PyExc(cls, arg, scr) == Outcome("exception", NoValue, NoValue, 0, cls, arg, scr)

Failed(r) == r.kind \in {"RunError", "exception"}

NoResult == Outcome("none", NoValue, NoValue, 0, "", NoFloat, <<>>)

(***************************************************************************)
(* Only({e(x) : x \in {v}}) is e(v), with v computed once however often    *)
(* e mentions x: the way a Python local holds the result of a call.        *)
(***************************************************************************)
Only(S) == CHOOSE x \in S : TRUE

(***************************************************************************)
(* Python integer arithmetic.                                              *)
(***************************************************************************)
Abs(n) == IF n < 0 THEN -n ELSE n

\* Python 2 a / b on ints: floor division
PyDiv(a, b) ==
    IF b > 0 THEN a \div b ELSE (-a) \div (-b)

\* Python a % b: the remainder has the sign of the divisor
PyMod(a, b) ==
    IF b > 0 THEN a % b ELSE -((-a) % (-b))

RECURSIVE BitOp(_, _, _, _)
\* a OP b bit by bit over the lowest `bits` bits; f is the truth table
\* of OP as a set of bit pairs that give 1
BitOp(f, a, b, bits) ==
    IF bits = 0 THEN 0
    ELSE (IF <<a % 2, b % 2>> \in f THEN 1 ELSE 0)
         + 2 * BitOp(f, a \div 2, b \div 2, bits - 1)

PyAnd(a, b) == BitOp({<<1, 1>>}, a, b, 16)
PyOr(a, b) == BitOp({<<1, 1>>, <<1, 0>>, <<0, 1>>}, a, b, 16)
PyXor(a, b) == BitOp({<<1, 0>>, <<0, 1>>}, a, b, 16)

(***************************************************************************)
(* BASIC Integer <-> Python int.                                           *)
(***************************************************************************)
int_to_integer_wrapping(n, unsigned, scr) ==
    Ret(Value(INT, <<(n % 65536) % 256, (n % 65536) \div 256>>), scr)

int_to_integer_bigendian(n, unsigned, scr) ==
    LET maxint == IF unsigned THEN 65535 ELSE 32767
        m == IF n < 0 THEN 65536 + n ELSE n
    IN  IF n > maxint \/ n < -32768
        THEN RunError(OVERFLOW, scr)
        ELSE Ret(Value(INT, <<m \div 256, m % 256>>), scr)

int_to_integer(n, unsigned, scr) ==
    LET maxint == IF unsigned THEN 65535 ELSE 32767
        m == IF n < 0 THEN 65536 + n ELSE n
    IN  IF n > maxint \/ n < -32768
        THEN RunError(OVERFLOW, scr)
        ELSE Ret(Value(INT, <<m % 256, m \div 256>>), scr)

integer_to_int(in_integer, unsigned) ==
    LET s == in_integer.bytes
    IN  IF unsigned
        THEN 256 * s[2] + s[1]
        ELSE LET value == 256 * (s[2] % 128) + s[1]
             IN  IF s[2] >= 128 THEN -32768 + value ELSE value

(***************************************************************************)
(* The floating point library fp (Microsoft Binary Format).  A Float is    *)
(* sign, mantissa and biased exponent; its value is                        *)
(*     (-1)^neg * (man + low/2^32) * 2^(exp - 152),  zero when exp = 0,    *)
(* with man the upper 24 mantissa bits (top bit set) and low the four      *)
(* lower mantissa bytes a Double has besides, least significant first.     *)
(* Arithmetic is exact on the floats the model uses: quarter-integers of   *)
(* small magnitude and the two maximum-magnitude constants.                *)
(***************************************************************************)
Float(cls, neg, man, low, e) ==
    [cls |-> cls, neg |-> neg, man |-> man, low |-> low, exp |-> e]

lowzero(cls) == IF cls = DBL THEN bytearray(4) ELSE <<>>

fp_zero(cls) == Float(cls, FALSE, 0, lowzero(cls), 0)

Single_max == Float(SNG, FALSE, 2^24 - 1, <<>>, 255)
Double_max == Float(DBL, FALSE, 2^24 - 1, <<255, 255, 255, 255>>, 255)
fp_max(cls) == IF cls = DBL THEN Double_max ELSE Single_max

\* fp.Single(neg, max.man, max.exp): the maximum with a given sign
signed_max(cls, neg) == [fp_max(cls) EXCEPT !.neg = neg]

is_zero(f) == f.exp = 0

\* fp.unpack: bytes to Float.  The last byte is the exponent, the top bit
\* of the byte before it the sign, which replaces the mantissa's top bit.
unpack(v) ==
    LET b == v.bytes
        n == Len(b)
    IN  Float(v.tag, b[n - 1] >= 128,
              65536 * ((b[n - 1] % 128) + 128) + 256 * b[n - 2] + b[n - 3],
              IF n = 8 THEN SubSeq(b, 1, 4) ELSE <<>>,
              b[n])

\* fp.pack: Float to bytes
pack(f) ==
    Value(f.cls,
          f.low \o << f.man % 256,
                      (f.man \div 256) % 256,
                      ((f.man \div 65536) % 128) + (IF f.neg THEN 128 ELSE 0),
                      f.exp >>)

RECURSIVE normalise(_, _, _, _)
\* bring a mantissa below 2^24 up until its top bit is set
normalise(cls, neg, man, e) ==
    IF man = 0 \/ e <= 0 THEN fp_zero(cls)
    ELSE IF man < 2^23 THEN normalise(cls, neg, 2 * man, e - 1)
    ELSE Float(cls, neg, man, lowzero(cls), e)

\* cls.from_int(num), for |num| < 2^24
from_int(cls, num) == normalise(cls, num < 0, Abs(num), 152)

\* the Float of value q/4, for |q| < 2^24
from_quarters(cls, q) == normalise(cls, q < 0, Abs(q), 150)

\* a Float whose value is a quarter-integer of magnitude below 2^18
is_small(f) ==
    \/ f.exp = 0
    \/ /\ f.exp >= 127
       /\ f.exp <= 170
       /\ f.low = lowzero(f.cls)
       /\ f.exp < 150 => f.man % (2^(150 - f.exp)) = 0

\* four times the value of a small Float
quarters(f) ==
    LET m == IF f.exp >= 150 THEN f.man * 2^(f.exp - 150)
             ELSE f.man \div 2^(150 - f.exp)
    IN  IF f.exp = 0 THEN 0 ELSE IF f.neg THEN -m ELSE m

\* Float.round_to_int(): nearest integer, halves away from zero
round_to_int(f) ==
    LET k == f.exp - 152
        whole == IF k >= 0
                 THEN f.man * 2^k
                      + (IF f.cls = DBL /\ k > 0 THEN f.low[4] \div 2^(8 - k) ELSE 0)
                 ELSE f.man \div 2^(-k)
        half  == IF k >= 0
                 THEN (IF f.cls = DBL THEN (f.low[4] \div 2^(7 - k)) % 2 ELSE 0)
                 ELSE (f.man \div 2^(-k - 1)) % 2
        mag   == whole + half
    IN  IF f.exp = 0 \/ k < -24 THEN 0
        ELSE IF k > 6 THEN (IF f.neg THEN -Huge ELSE Huge)
        ELSE IF f.neg THEN -mag ELSE mag

\* magnitude order of two Floats of one class
low_gt(a, b) ==
    \E i \in 1..Len(a) :
        /\ a[i] > b[i]
        /\ \A j \in (i + 1)..Len(a) : a[j] = b[j]

mag_gt(a, b) ==
    \/ a.exp > b.exp
    \/ a.exp = b.exp /\ a.man > b.man
    \/ a.exp = b.exp /\ a.man = b.man /\ low_gt(a.low, b.low)

\* Float.gt(right)
fp_gt(a, b) ==
    IF is_zero(a) THEN ~is_zero(b) /\ b.neg
    ELSE IF is_zero(b) THEN ~a.neg
    ELSE IF a.neg # b.neg THEN b.neg
    ELSE IF a.neg THEN mag_gt(b, a) ELSE mag_gt(a, b)

\* Float.equals(right)
fp_equals(a, b) ==
    \/ is_zero(a) /\ is_zero(b)
    \/ /\ ~is_zero(a) /\ ~is_zero(b)
       /\ a.neg = b.neg /\ a.exp = b.exp /\ a.man = b.man /\ a.low = b.low

\* Float.iadd(right): the sum, or OverflowError carrying the signed maximum
fp_add(a, b, scr) ==
    CASE is_zero(b) -> Ret(pack(a), scr)
      [] ~is_zero(b) /\ is_zero(a) -> Ret(pack(b), scr)
      [] ~is_zero(a) /\ ~is_zero(b) /\ is_small(a) /\ is_small(b) ->
            Ret(pack(from_quarters(a.cls, quarters(a) + quarters(b))), scr)
      [] a.exp = 255 /\ b.exp = 255 /\ a.neg = b.neg ->
            PyExc(OverflowError, signed_max(a.cls, a.neg), scr)
      [] a.exp = 255 /\ b.exp = 255 /\ a.neg # b.neg ->
            Ret(pack(IF fp_equals(a, [b EXCEPT !.neg = a.neg])
                     THEN fp_zero(a.cls)
                     ELSE IF mag_gt(a, b) THEN a ELSE b), scr)
      [] a.exp = 255 /\ ~is_zero(b) /\ is_small(b) -> Ret(pack(a), scr)
      [] b.exp = 255 /\ ~is_zero(a) /\ is_small(a) -> Ret(pack(b), scr)

\* Float.round_to_single() of a Double: the lower mantissa bytes are
\* rounded away; a carry out of the top exponent is OverflowError
round_to_single(f) ==
    LET up == f.low[4] >= 128
        man == IF up THEN f.man + 1 ELSE f.man
    IN  IF f.exp = 0 THEN [ok |-> TRUE, f |-> fp_zero(SNG)]
        ELSE IF man < 2^24
        THEN [ok |-> TRUE, f |-> Float(SNG, f.neg, man, <<>>, f.exp)]
        ELSE IF f.exp < 255
        THEN [ok |-> TRUE, f |-> Float(SNG, f.neg, 2^23, <<>>, f.exp + 1)]
        ELSE [ok |-> FALSE, f |-> signed_max(SNG, f.neg)]


(***************************************************************************)
(* The string space: a String value is a length byte and a two byte        *)
(* address; the bytes themselves live in the string space.                 *)
(***************************************************************************)
StringTable == << <<>>, <<65, 66>>, <<65, 66, 67>>, <<65, 67>>, <<66>>, <<65, 66, 200>> >>

string_length(in_string) == in_string.bytes[1]

string_address(in_string) ==
    integer_to_int(from_bytes(SubSeq(in_string.bytes, 2, 3)), TRUE)

\* StringSpace.copy: the bytes a handle stands for
copy(in_string) ==
    SubSeq(StringTable[string_address(in_string)], 1, string_length(in_string))

\* the handle of the i-th stored string
stored(i) == Value(STR, <<Len(StringTable[i]), i % 256, i \div 256>>)

pass_string(inp, scr) ==
    IF inp.tag # STR THEN RunError(TYPE_MISMATCH, scr) ELSE Ret(inp, scr)

pass_number(inp, scr) ==
    IF inp.tag \notin {INT, SNG, DBL} THEN RunError(TYPE_MISMATCH, scr) ELSE Ret(inp, scr)

(***************************************************************************)
(* The math error handler.  h is the handler as the operation finds it:    *)
(* [do_raise, has_screen, double_math]; e is the intercepted exception,    *)
(* whose screen field is the display when it was raised.                   *)
(***************************************************************************)
soft_types == {OVERFLOW, DIVISION_BY_ZERO}

math_error_of(e) ==
    CASE e.err = ValueError -> IFC
      [] e.err = OverflowError -> OVERFLOW
      [] e.err = ZeroDivisionError -> DIVISION_BY_ZERO
      [] OTHER -> ""

handle_write_then_raise(h, e) ==
    LET math_error == math_error_of(e)
        scr == Append(e.screen, message(math_error))
    IN  IF math_error = "" THEN e
        ELSE IF h.do_raise \/ ~h.has_screen \/ math_error \notin soft_types
        THEN RunError(math_error, IF h.has_screen THEN scr ELSE e.screen)
        ELSE IF e.earg # NoFloat THEN Ret(pack(e.earg), scr)
        ELSE Ret(pack(Single_max), scr)

handle(h, e) ==
    LET math_error == math_error_of(e)
    IN  IF math_error = "" THEN e
        ELSE IF h.do_raise \/ ~h.has_screen \/ math_error \notin soft_types
        THEN RunError(math_error, e.screen)
        ELSE LET scr == Append(e.screen, message(math_error))
             IN  IF e.earg # NoFloat THEN Ret(pack(e.earg), scr)
                 ELSE Ret(pack(Single_max), scr)

\* the decorator, were RunError an ArithmeticError: a typed soft fault
\* raised further in is handled again
float_safe_catching_run_errors(h, r) ==
    Only({IF x.kind = "exception" THEN handle(h, x)
          ELSE IF x.kind = "RunError" /\ x.err = OVERFLOW
          THEN handle(h, PyExc(OverflowError, NoFloat, x.screen))
          ELSE IF x.kind = "RunError" /\ x.err = DIVISION_BY_ZERO
          THEN handle(h, PyExc(ZeroDivisionError, NoFloat, x.screen))
          ELSE x : x \in {r}})

\* the decorator: ValueError and ArithmeticError go to the handler,
\* everything else, RunError included, passes
float_safe(h, r) ==
    Only({IF x.kind = "exception" THEN handle(h, x) ELSE x : x \in {r}})

(***************************************************************************)
(* Type conversions.                                                       *)
(***************************************************************************)
to_integer_unsigned_nonnegative(inp, unsigned, scr) ==
    LET maxint == IF unsigned THEN 65535 ELSE 32767
        minint == IF unsigned THEN 0 ELSE -32768
        val == round_to_int(unpack(inp))
    IN  IF inp.tag = INT THEN Ret(inp, scr)
        ELSE IF inp.tag \in {SNG, DBL}
        THEN IF val > maxint \/ val < minint
             THEN RunError(OVERFLOW, scr)
             ELSE int_to_integer(val, TRUE, scr)
        ELSE RunError(TYPE_MISMATCH, scr)

to_integer(inp, unsigned, scr) ==
    LET maxint == IF unsigned THEN 65535 ELSE 32767
        val == round_to_int(unpack(inp))
    IN  IF inp.tag = INT THEN Ret(inp, scr)
        ELSE IF inp.tag \in {SNG, DBL}
        THEN IF val > maxint \/ val < -32768
             THEN RunError(OVERFLOW, scr)
             ELSE int_to_integer(val, TRUE, scr)
        ELSE RunError(TYPE_MISMATCH, scr)

to_int(inp, unsigned, scr) ==
    Only({IF Failed(i) THEN i ELSE RetInt(integer_to_int(i.val, FALSE), scr) :
          i \in {to_integer(inp, unsigned, scr)}})

to_single(h, num, scr) ==
    float_safe(h,
        CASE num.tag = SNG -> Ret(num, scr)
          [] num.tag = INT -> Ret(pack(from_int(SNG, integer_to_int(num, FALSE))), scr)
          [] num.tag = DBL ->
                LET r == round_to_single(unpack(num))
                IN  IF r.ok THEN Ret(pack(r.f), scr)
                    ELSE PyExc(OverflowError, r.f, scr)
          [] OTHER -> RunError(TYPE_MISMATCH, scr))

to_double_unpadded(h, num, scr) ==
    float_safe(h,
        CASE num.tag = DBL -> Ret(num, scr)
          [] num.tag = INT -> Ret(pack(from_int(DBL, integer_to_int(num, FALSE))), scr)
          [] num.tag = SNG -> Ret(Value(DBL, num.bytes), scr)
          [] OTHER -> RunError(TYPE_MISMATCH, scr))

to_double(h, num, scr) ==
    float_safe(h,
        CASE num.tag = DBL -> Ret(num, scr)
          [] num.tag = INT -> Ret(pack(from_int(DBL, integer_to_int(num, FALSE))), scr)
          [] num.tag = SNG -> Ret(Value(DBL, bytearray(4) \o num.bytes), scr)
          [] OTHER -> RunError(TYPE_MISMATCH, scr))

to_float(h, num, allow_double, scr) ==
    IF num.tag = DBL /\ allow_double THEN Ret(num, scr) ELSE to_single(h, num, scr)

\* the pair (conv(left), conv(right)), left evaluated first
both(l, r) ==
    IF Failed(l) THEN l
    ELSE Only({IF Failed(y) THEN y ELSE RetPair(l.val, y.val, y.screen) : y \in {r}})

to_most_precise_single_first(h, left, right, scr) ==
    IF left.tag = SNG \/ right.tag = SNG
    THEN Only({both(l, to_single(h, right, l.screen)) : l \in {to_single(h, left, scr)}})
    ELSE IF left.tag = DBL \/ right.tag = DBL
    THEN Only({both(l, to_double(h, right, l.screen)) : l \in {to_double(h, left, scr)}})
    ELSE IF left.tag = INT \/ right.tag = INT
    THEN Only({both(l, to_integer(right, FALSE, l.screen)) :
               l \in {to_integer(left, FALSE, scr)}})
    ELSE RunError(TYPE_MISMATCH, scr)

to_most_precise(h, left, right, scr) ==
    IF left.tag = DBL \/ right.tag = DBL
    THEN Only({both(l, to_double(h, right, l.screen)) : l \in {to_double(h, left, scr)}})
    ELSE IF left.tag = SNG \/ right.tag = SNG
    THEN Only({both(l, to_single(h, right, l.screen)) : l \in {to_single(h, left, scr)}})
    ELSE IF left.tag = INT \/ right.tag = INT
    THEN Only({both(l, to_integer(right, FALSE, l.screen)) :
               l \in {to_integer(left, FALSE, scr)}})
    ELSE RunError(TYPE_MISMATCH, scr)


to_bool_bytes(boo) == IF boo THEN <<255, 255>> ELSE <<0, 0>>

from_bool(boo, scr) == Ret(from_bytes(to_bool_bytes(boo)), scr)

(***************************************************************************)
(* Numeric operators.                                                      *)
(***************************************************************************)
\* out[1][-2] ^= 0x80
flip_sign(bytes) ==
    [i \in 1..Len(bytes) |->
        IF i # Len(bytes) - 1 THEN bytes[i]
        ELSE IF bytes[i] >= 128 THEN bytes[i] - 128 ELSE bytes[i] + 128]

\* out[1][-2] &= 0x7F
clear_sign(bytes) ==
    [i \in 1..Len(bytes) |-> IF i # Len(bytes) - 1 THEN bytes[i] ELSE bytes[i] % 128]

negate_wrapping(inp, scr) ==
    LET val == -integer_to_int(inp, FALSE)
    IN  CASE inp.tag = INT -> int_to_integer_wrapping(val, FALSE, scr)
          [] inp.tag \in {SNG, DBL} -> Ret(Value(inp.tag, flip_sign(inp.bytes)), scr)
          [] OTHER -> Ret(inp, scr)

negate(inp, scr) ==
    LET val == -integer_to_int(inp, FALSE)
    IN  CASE inp.tag = INT ->
                IF val = 32768 THEN Ret(pack(from_int(SNG, val)), scr)
                ELSE int_to_integer(val, FALSE, scr)
          [] inp.tag \in {SNG, DBL} -> Ret(Value(inp.tag, flip_sign(inp.bytes)), scr)
          [] OTHER -> Ret(inp, scr)

abs(inp, scr) ==
    LET val == Abs(integer_to_int(inp, FALSE))
    IN  CASE inp.tag = INT ->
                IF val = 32768 THEN Ret(pack(from_int(SNG, val)), scr)
                ELSE int_to_integer(val, FALSE, scr)
          [] inp.tag \in {SNG, DBL} -> Ret(Value(inp.tag, clear_sign(inp.bytes)), scr)
          [] OTHER -> Ret(inp, scr)

add_wrapping(h, left, right, scr) ==
    float_safe(h, Only({
        IF Failed(mp) THEN mp
        ELSE IF mp.val.tag \in {DBL, SNG}
        THEN fp_add(unpack(mp.val), unpack(mp.val2), mp.screen)
        ELSE int_to_integer_wrapping(
                 integer_to_int(mp.val, FALSE) + integer_to_int(mp.val2, FALSE),
                 FALSE, mp.screen) :
        mp \in {to_most_precise(h, left, right, scr)}}))

add_repacking(h, left, right, scr) ==
    float_safe(h, Only({
        IF Failed(mp) THEN mp
        ELSE IF mp.val.tag \in {DBL, SNG}
        THEN fp_add(unpack(mp.val), unpack(mp.val2), mp.screen)
        ELSE LET sum == integer_to_int(mp.val, FALSE) + integer_to_int(mp.val2, FALSE)
             IN  IF sum > 32767 \/ sum < -32768
                 THEN Ret(pack(from_int(SNG, sum)), mp.screen)
                 ELSE int_to_integer(sum, FALSE, mp.screen) :
        mp \in {to_most_precise(h, left, right, scr)}}))

add(h, left, right, scr) ==
    float_safe(h, Only({
        IF Failed(mp) THEN mp
        ELSE IF mp.val.tag \in {DBL, SNG}
        THEN fp_add(unpack(mp.val), unpack(mp.val2), mp.screen)
        ELSE \* return Single to avoid wrapping on integer overflow
             Ret(pack(from_int(SNG,
                    integer_to_int(mp.val, FALSE) + integer_to_int(mp.val2, FALSE))),
                 mp.screen) :
        mp \in {to_most_precise(h, left, right, scr)}}))

subtract(h, left, right, scr) ==
    float_safe(h, Only({
        IF Failed(n) THEN n ELSE add(h, left, n.val, n.screen) :
        n \in {negate(right, scr)}}))

divide_int_positive_max(h, left, right, scr) ==
    float_safe(h, Only({
        IF Failed(dividend) THEN dividend
        ELSE IF Failed(divisor) THEN divisor
        ELSE IF divisor.num = 0
        THEN PyExc(ZeroDivisionError, Single_max, scr)
        ELSE IF (dividend.num >= 0) = (divisor.num >= 0)
        THEN int_to_integer(PyDiv(dividend.num, divisor.num), FALSE, scr)
        ELSE int_to_integer(-PyDiv(Abs(dividend.num), Abs(divisor.num)), FALSE, scr) :
        dividend \in {to_int(left, FALSE, scr)}, divisor \in {to_int(right, FALSE, scr)}}))

divide_int_flooring(h, left, right, scr) ==
    float_safe(h, Only({
        IF Failed(dividend) THEN dividend
        ELSE IF Failed(divisor) THEN divisor
        ELSE IF divisor.num = 0
        THEN PyExc(ZeroDivisionError, signed_max(SNG, dividend.num < 0), scr)
        ELSE int_to_integer(PyDiv(dividend.num, divisor.num), FALSE, scr) :
        dividend \in {to_int(left, FALSE, scr)}, divisor \in {to_int(right, FALSE, scr)}}))

divide_int(h, left, right, scr) ==
    float_safe(h, Only({
        IF Failed(dividend) THEN dividend
        ELSE IF Failed(divisor) THEN divisor
        ELSE IF divisor.num = 0
        THEN \* simulate (float!) division by zero
             PyExc(ZeroDivisionError, signed_max(SNG, dividend.num < 0), scr)
        ELSE IF (dividend.num >= 0) = (divisor.num >= 0)
        THEN int_to_integer(PyDiv(dividend.num, divisor.num), FALSE, scr)
        ELSE int_to_integer(-PyDiv(Abs(dividend.num), Abs(divisor.num)), FALSE, scr) :
        dividend \in {to_int(left, FALSE, scr)}, divisor \in {to_int(right, FALSE, scr)}}))

mod(h, left, right, scr) ==
    float_safe(h, Only({
        IF Failed(divisor) THEN divisor
        ELSE IF Failed(dividend) THEN dividend
        ELSE IF divisor.num = 0
        THEN \* simulate (float!) division by zero
             PyExc(ZeroDivisionError, signed_max(SNG, dividend.num < 0), scr)
        ELSE LET m == PyMod(dividend.num, divisor.num)
             IN  int_to_integer(IF dividend.num < 0 \/ m < 0 THEN m - divisor.num ELSE m,
                                FALSE, scr) :
        divisor \in {to_int(right, FALSE, scr)}, dividend \in {to_int(left, FALSE, scr)}}))


\* the unsigned reads of both operands after to_integer, left first
unsigned_pair(left, right, scr) ==
    Only({IF Failed(l) THEN l ELSE IF Failed(r) THEN r ELSE RetPair(l.val, r.val, scr) :
          l \in {to_integer(left, FALSE, scr)}, r \in {to_integer(right, FALSE, scr)}})

bitwise_not(right, scr) ==
    Only({IF Failed(r) THEN r ELSE int_to_integer(-r.num - 1, FALSE, scr) :
          r \in {to_int(right, FALSE, scr)}})

bitwise_and_signed(left, right, scr) ==
    Only({IF Failed(p) THEN p
          ELSE int_to_integer(PyAnd(integer_to_int(p.val, TRUE),
                                        integer_to_int(p.val2, TRUE)), FALSE, scr) :
          p \in {unsigned_pair(left, right, scr)}})

bitwise_and(left, right, scr) ==
    Only({IF Failed(p) THEN p
          ELSE int_to_integer(PyAnd(integer_to_int(p.val, TRUE),
                                        integer_to_int(p.val2, TRUE)), TRUE, scr) :
          p \in {unsigned_pair(left, right, scr)}})

bitwise_or(left, right, scr) ==
    Only({IF Failed(p) THEN p
          ELSE int_to_integer(PyOr(integer_to_int(p.val, TRUE),
                                       integer_to_int(p.val2, TRUE)), TRUE, scr) :
          p \in {unsigned_pair(left, right, scr)}})

bitwise_xor(left, right, scr) ==
    Only({IF Failed(p) THEN p
          ELSE int_to_integer(PyXor(integer_to_int(p.val, TRUE),
                                        integer_to_int(p.val2, TRUE)), TRUE, scr) :
          p \in {unsigned_pair(left, right, scr)}})

bitwise_eqv(left, right, scr) ==
    Only({IF Failed(p) THEN p
          ELSE int_to_integer(65535 - PyXor(integer_to_int(p.val, TRUE),
                                                integer_to_int(p.val2, TRUE)), TRUE, scr) :
          p \in {unsigned_pair(left, right, scr)}})

bitwise_imp(left, right, scr) ==
    Only({IF Failed(p) THEN p
          ELSE int_to_integer(PyOr(65535 - integer_to_int(p.val, TRUE),
                                       integer_to_int(p.val2, TRUE)), TRUE, scr) :
          p \in {unsigned_pair(left, right, scr)}})

(***************************************************************************)
(* Comparisons.                                                            *)
(***************************************************************************)
\* the pair of byte strings of two String operands, left checked first
string_pair(left, right, scr) ==
    Only({IF Failed(l) THEN l ELSE IF Failed(r) THEN r ELSE RetPair(l.val, r.val, scr) :
          l \in {pass_string(left, scr)}, r \in {pass_string(right, scr)}})

_bool_eq(h, left, right, scr) ==
    IF left.tag = STR
    THEN Only({IF Failed(p) THEN p ELSE RetBool(copy(p.val) = copy(p.val2), scr) :
               p \in {string_pair(left, right, scr)}})
    ELSE Only({
             IF Failed(mp) THEN mp
             ELSE IF mp.val.tag \in {DBL, SNG}
             THEN RetBool(fp_equals(unpack(mp.val), unpack(mp.val2)), mp.screen)
             ELSE RetBool(integer_to_int(mp.val, FALSE) = integer_to_int(mp.val2, FALSE),
                          mp.screen) :
             mp \in {to_most_precise(h, left, right, scr)}})

str_gt_longer_first(l, r, i) ==
    \/ Len(l) > Len(r)
    \/ Len(l) = Len(r) /\ \E k \in 1..Len(l) :
          l[k] > r[k] /\ \A j \in 1..(k - 1) : l[j] = r[j]

RECURSIVE str_gt(_, _, _)
\* the loop of bool_gt over the common prefix, from position i
str_gt(l, r, i) ==
    LET shortest == IF Len(l) < Len(r) THEN Len(l) ELSE Len(r)
    IN  IF i > shortest THEN Len(l) > Len(r)
        ELSE IF l[i] > r[i] THEN TRUE
        ELSE IF l[i] < r[i] THEN FALSE
        ELSE str_gt(l, r, i + 1)

bool_gt(h, left, right, scr) ==
    IF left.tag = STR
    THEN Only({IF Failed(p) THEN p
               ELSE RetBool(str_gt(copy(p.val), copy(p.val2), 1), scr) :
               p \in {string_pair(left, right, scr)}})
    ELSE Only({
             IF Failed(mp) THEN mp
             ELSE IF mp.val.tag \in {DBL, SNG}
             THEN RetBool(fp_gt(unpack(mp.val), unpack(mp.val2)), mp.screen)
             ELSE RetBool(integer_to_int(mp.val, FALSE) > integer_to_int(mp.val2, FALSE),
                          mp.screen) :
             mp \in {to_most_precise(h, left, right, scr)}})

\* from_bool(b.num = 1) or from_bool(not b.num = 1) of a boolean outcome
boolean(b, negated) ==
    Only({IF Failed(x) THEN x ELSE from_bool((x.num = 1) # negated, x.screen) : x \in {b}})

equals(h, left, right, scr) == boolean(_bool_eq(h, left, right, scr), FALSE)

not_equals(h, left, right, scr) == boolean(_bool_eq(h, left, right, scr), TRUE)

gt(h, left, right, scr) == boolean(bool_gt(h, left, right, scr), FALSE)

gte_swapped(h, left, right, scr) == boolean(bool_gt(h, left, right, scr), TRUE)

gte(h, left, right, scr) == boolean(bool_gt(h, right, left, scr), TRUE)

lte(h, left, right, scr) == boolean(bool_gt(h, left, right, scr), TRUE)

lt(h, left, right, scr) == boolean(bool_gt(h, right, left, scr), FALSE)


(***************************************************************************)
(* Python floats, as far as the math functions below need them: a Python   *)
(* float is a Float of class "float" whose exponent is not confined to     *)
(* one byte.  The functions are exact on the operands the model draws:     *)
(* powers of two raised to whole powers, square roots of powers of four,   *)
(* and exp at zero and beyond the range of both float types.               *)
(***************************************************************************)
PyFloat(neg, man, e) == Float("float", neg, man, <<>>, e)

RetFloat(f, scr) == Outcome("float", NoValue, NoValue, 0, "", f, scr)

\* Float.to_value()
to_value(f) == IF is_zero(f) THEN PyFloat(FALSE, 0, 0) ELSE PyFloat(f.neg, f.man, f.exp)

\* cls().from_value(x): OverflowError carrying the signed maximum when x is
\* beyond the class's range, zero on underflow
from_value(cls, x, scr) ==
    IF x.man = 0 \/ x.exp <= 0 THEN Ret(pack(fp_zero(cls)), scr)
    ELSE IF x.exp > 255 THEN PyExc(OverflowError, signed_max(cls, x.neg), scr)
    ELSE Ret(pack(Float(cls, x.neg, x.man, lowzero(cls), x.exp)), scr)

py_is_whole(x) == x.man = 0 \/ (is_small(x) /\ quarters(x) % 4 = 0)
py_whole(x) == quarters(x) \div 4

\* a ** b on Python floats, for a a signed power of two 2^k (or zero) and
\* b a quarter-integer with k * b whole
py_pow(a, b, scr) ==
    LET k == a.exp - 129
        e4 == k * quarters(b)
        neg == a.neg /\ py_whole(b) % 2 = 1
    IN  CASE b.man = 0 -> RetFloat(PyFloat(FALSE, 2^23, 129), scr)
          [] b.man # 0 /\ a.man = 0 ->
                IF b.neg THEN PyExc(ZeroDivisionError, NoFloat, scr)
                ELSE RetFloat(PyFloat(FALSE, 0, 0), scr)
          [] b.man # 0 /\ a.man # 0 /\ a.neg /\ ~py_is_whole(b) ->
                PyExc(ValueError, NoFloat, scr)
          [] b.man # 0 /\ a.man = 2^23 /\ (py_is_whole(b) \/ ~a.neg) /\ e4 % 4 = 0 ->
                IF e4 \div 4 > 1023 THEN PyExc(OverflowError, NoFloat, scr)
                ELSE RetFloat(PyFloat(neg, 2^23, e4 \div 4 + 129), scr)

\* math.sqrt(a)
py_sqrt(a, scr) ==
    CASE a.man = 0 -> RetFloat(PyFloat(FALSE, 0, 0), scr)
      [] a.man # 0 /\ a.neg -> PyExc(ValueError, NoFloat, scr)
      [] a.man = 2^23 /\ ~a.neg /\ (a.exp - 129) % 2 = 0 ->
            RetFloat(PyFloat(FALSE, 2^23, (a.exp - 129) \div 2 + 129), scr)

\* math.exp(a), for a = 0 and for a >= 89: for whole a < 2^18 the result
\* lies in [2^k, 2^(k+1)) with k = floor(a * log2(e)) > 127 and is taken as
\* 2^k; it is OverflowError from 2^1024 on
py_exp(a, scr) ==
    LET n == py_whole(a)
        k == (n * 1442695) \div 1000000
    IN  CASE a.man = 0 -> RetFloat(PyFloat(FALSE, 2^23, 129), scr)
          [] a.man # 0 /\ ~a.neg /\ a.exp > 170 -> PyExc(OverflowError, NoFloat, scr)
          [] a.man # 0 /\ ~a.neg /\ a.exp <= 170 /\ py_is_whole(a) /\ n >= 89 ->
                IF n > 1000 \/ k > 1023 THEN PyExc(OverflowError, NoFloat, scr)
                ELSE RetFloat(PyFloat(FALSE, 2^23, k + 129), scr)

py_call(fn, fargs, scr) ==
    CASE fn = "pow" -> py_pow(to_value(unpack(fargs[1])), to_value(unpack(fargs[2])), scr)
      [] fn = "sqrt" -> py_sqrt(to_value(unpack(fargs[1])), scr)
      [] fn = "exp" -> py_exp(to_value(unpack(fargs[1])), scr)

RECURSIVE to_float_list(_, _, _)
\* [self.to_float(arg, self._double_math) for arg in args]: the converted
\* operands, or the first failure
to_float_list(h, fargs, scr) ==
    IF fargs = <<>> THEN [fail |-> NoResult, vals |-> <<>>, screen |-> scr]
    ELSE Only({
             IF Failed(c) THEN [fail |-> c, vals |-> <<>>, screen |-> c.screen]
             ELSE Only({[fail |-> rest.fail, vals |-> <<c.val>> \o rest.vals,
                         screen |-> rest.screen] :
                        rest \in {to_float_list(h, Tail(fargs), c.screen)}}) :
             c \in {to_float(h, Head(fargs), h.double_math, scr)}})

_call_float_function(h, fn, fargs, scr) ==
    float_safe(h, Only({
        IF Failed(c.fail) THEN c.fail
        ELSE Only({
            LET floatcls == c.vals[1].tag
                r == IF y.kind = "float" THEN from_value(floatcls, y.earg, y.screen)
                     ELSE y
            IN  IF r.kind = "exception" /\ r.err \in {OverflowError, ZeroDivisionError}
                THEN \* positive infinity
                     PyExc(r.err, fp_max(floatcls), r.screen)
                ELSE r :
            y \in {py_call(fn, c.vals, c.screen)}}) :
        c \in {to_float_list(h, fargs, scr)}}))

sqr(h, x, scr) == _call_float_function(h, "sqrt", <<x>>, scr)

exp(h, x, scr) == _call_float_function(h, "exp", <<x>>, scr)

\* Float.ipow_int(expt) on a Single: exact on powers of two; OverflowError
\* and ZeroDivisionError carry the signed maximum
ipow_int(f, expt, scr) ==
    Only({
        IF y.kind = "float" THEN from_value(SNG, y.earg, scr)
        ELSE IF y.err = OverflowError
        THEN PyExc(OverflowError, signed_max(SNG, f.neg /\ expt % 2 = 1), scr)
        ELSE IF y.err = ZeroDivisionError
        THEN PyExc(ZeroDivisionError, Single_max, scr)
        ELSE y :
        y \in {py_pow(to_value(f), to_value(from_int(SNG, expt)), scr)}})

power(h, left, right, scr) ==
    float_safe(h,
        IF (left.tag = DBL \/ right.tag = DBL) /\ h.double_math
        THEN Only({
                 IF Failed(p) THEN p
                 ELSE _call_float_function(h, "pow", <<p.val, p.val2>>, p.screen) :
                 p \in {Only({both(l, to_double(h, right, l.screen)) :
                              l \in {to_double(h, left, scr)}})}})
        ELSE IF right.tag = INT
        THEN Only({
                 IF Failed(l) THEN l
                 ELSE ipow_int(unpack(l.val), integer_to_int(right, FALSE), l.screen) :
                 l \in {to_single(h, left, scr)}})
        ELSE Only({
                 IF Failed(p) THEN p
                 ELSE _call_float_function(h, "pow", <<p.val, p.val2>>, p.screen) :
                 p \in {Only({both(l, to_single(h, right, l.screen)) :
                              l \in {to_single(h, left, scr)}})}}))


(***************************************************************************)
(* Decimal scaling in the fp library.  The mantissa of a Float is handled  *)
(* as its bytes, least significant first (three for a Single, seven for a  *)
(* Double); products and quotients are exact, and bits that do not fit the *)
(* mantissa are dropped.                                                   *)
(***************************************************************************)
limbs(f) == f.low \o <<f.man % 256, (f.man \div 256) % 256, f.man \div 65536>>

from_limbs(cls, neg, L, e) ==
    Float(cls, neg,
          L[Len(L) - 2] + 256 * L[Len(L) - 1] + 65536 * L[Len(L)],
          SubSeq(L, 1, Len(L) - 3), e)

RECURSIVE mul_limbs(_, _, _)
\* L * k + carry, one byte longer than L
mul_limbs(L, k, carry) ==
    IF L = <<>> THEN <<carry>>
    ELSE Only({<<t % 256>> \o mul_limbs(Tail(L), k, t \div 256) :
               t \in {Head(L) * k + carry}})

RECURSIVE div_limbs(_, _, _, _)
\* the remainder of L \div k, followed by the quotient's bytes
div_limbs(L, k, i, rem) ==
    IF i = 0 THEN <<rem>>
    ELSE Only({div_limbs(L, k, i - 1, t % k) \o <<t \div k>> :
               t \in {rem * 256 + L[i]}})

halve(L) ==
    [i \in 1..Len(L) |->
        (L[i] \div 2) + (IF i < Len(L) THEN (L[i + 1] % 2) * 128 ELSE 0)]

double(L, bit) ==
    [i \in 1..Len(L) |->
        ((2 * L[i]) % 256) + (IF i > 1 THEN L[i - 1] \div 128 ELSE bit)]

RECURSIVE shrink(_, _)
\* shift right until the extra top byte of P is empty: <<bytes, exponent>>
shrink(P, e) ==
    IF P[Len(P)] = 0 THEN <<SubSeq(P, 1, Len(P) - 1), e>>
    ELSE Only({shrink(Q, e + 1) : Q \in {halve(P)}})

RECURSIVE grow(_, _, _, _)
\* shift left until the top bit of Q is set, taking the bits of rem / k
grow(Q, rem, k, e) ==
    IF Q[Len(Q)] >= 128 \/ e <= 0 THEN <<Q, e>>
    ELSE Only({grow(double(Q, IF r >= k THEN 1 ELSE 0),
                    IF r >= k THEN r - k ELSE r, k, e - 1) : r \in {2 * rem}})

\* Float.imul10(): OverflowError carries the maximum of the sign
imul10(f, scr) ==
    IF is_zero(f) THEN Ret(pack(f), scr)
    ELSE Only({IF s[2] > 255
               THEN PyExc(OverflowError, signed_max(f.cls, f.neg), scr)
               ELSE Ret(pack(from_limbs(f.cls, f.neg, s[1], s[2])), scr) :
               s \in {shrink(mul_limbs(limbs(f), 10, 0), f.exp)}})

\* Float.idiv10(): a quotient below the smallest Float is zero
idiv10(f) ==
    IF is_zero(f) THEN f
    ELSE Only({IF g[2] <= 0 THEN fp_zero(f.cls)
               ELSE from_limbs(f.cls, f.neg, g[1], g[2]) :
               g \in {Only({grow(Tail(d), Head(d), 10, f.exp) :
                            d \in {div_limbs(limbs(f), 10, Len(limbs(f)), 0)}})}})

\* cls(neg, mantissa * 0x100, cls.bias).normalise(), for mantissa < 2^31
from_mantissa(cls, neg, mantissa) ==
    IF mantissa < 2^24 THEN normalise(cls, neg, mantissa, 152)
    ELSE Only({from_limbs(cls, neg, s[1], s[2]) :
               s \in {shrink(lowzero(cls) \o <<mantissa % 256, (mantissa \div 256) % 256,
                                              (mantissa \div 65536) % 256,
                                              mantissa \div 16777216>>, 152)}})

RECURSIVE scale10(_, _, _)
\* a loop of _float_from_exp10: n times imul10 (up) or idiv10 on the packed
\* value of r, ended by the first exception
scale10(r, n, up) ==
    IF r.kind # "value" \/ n = 0 THEN r
    ELSE IF n = 1
    THEN IF up THEN imul10(unpack(r.val), r.screen)
         ELSE Ret(pack(idiv10(unpack(r.val))), r.screen)
    ELSE Only({scale10(m, k, up) :
               m \in {scale10(r, n \div 2, up)}, k \in {n - (n \div 2)}})

_float_from_exp10(h, neg, mantissa, exp10, is_double, scr) ==
    float_safe(h,
        scale10(Ret(pack(from_mantissa(IF is_double THEN DBL ELSE SNG, neg, mantissa)),
                    scr),
                Abs(exp10), exp10 > 0))

(***************************************************************************)
(* Characters.  A Python str is a sequence of one-character strings; the   *)
(* separators 0x1C, 0x1D and 0x1F are written "<FS>", "<GS>" and "<US>".   *)
(***************************************************************************)
string_digits == <<"0", "1", "2", "3", "4", "5", "6", "7", "8", "9">>

is_digit(c) == \E i \in 1..10 : string_digits[i] = c

\* ord(c) - ord('0')
digit_value(c) == (CHOOSE i \in 1..10 : string_digits[i] = c) - 1

number_whitespace == {" ", "\t", "\n"}

separators == {"<FS>", "<GS>", "<US>"}

upper(c) ==
    CASE c = "e" -> "E" [] c = "d" -> "D" [] c = "l" -> "L" [] c = "q" -> "Q"
      [] c = "h" -> "H" [] c = "o" -> "O"
      [] OTHER -> c

RECURSIVE int_of_digits(_, _)
\* int(s) of a run of digits, after the value acc of the digits before
int_of_digits(s, acc) ==
    IF s = <<>> THEN acc
    ELSE int_of_digits(Tail(s), 10 * acc + digit_value(Head(s)))

\* int(s) succeeds: an optional sign and at least one digit
is_int_str(s) ==
    LET body == IF s # <<>> /\ s[1] \in {"+", "-"} THEN Tail(s) ELSE s
    IN  body # <<>> /\ \A i \in 1..Len(body) : is_digit(body[i])

str_to_int(s) ==
    IF ~is_int_str(s) THEN 0
    ELSE IF s[1] = "-" THEN -int_of_digits(Tail(s), 0)
    ELSE IF s[1] = "+" THEN int_of_digits(Tail(s), 0)
    ELSE int_of_digits(s, 0)

(***************************************************************************)
(* _str_to_float: one pass over the word.  go is false once the loop has   *)
(* met its break.                                                          *)
(***************************************************************************)
float_scan_start ==
    [found_sign |-> FALSE, found_point |-> FALSE, found_exp |-> FALSE,
     found_exp_sign |-> FALSE, exp_neg |-> FALSE, neg |-> FALSE,
     exp10 |-> 0, exponent |-> 0, mantissa |-> 0, digits |-> 0, zeros |-> 0,
     is_double |-> FALSE, is_single |-> FALSE, go |-> TRUE]

\* the part of the loop body that follows the sign test
float_scan_body(st, c) ==
    IF ~st.found_exp
    THEN IF is_digit(c)
         THEN LET m == st.mantissa * 10 + digit_value(c)
                  counted == [st EXCEPT !.mantissa = m,
                                 !.exp10 = IF st.found_point THEN @ - 1 ELSE @]
              IN  IF m # 0
                  THEN [counted EXCEPT !.digits = @ + 1,
                           !.zeros = IF st.found_point /\ c = "0" THEN @ + 1 ELSE 0]
                  ELSE counted
         ELSE IF c = "." THEN [st EXCEPT !.found_point = TRUE]
         ELSE IF upper(c) \in {"D", "E"}
         THEN [st EXCEPT !.found_exp = TRUE, !.is_double = (upper(c) = "D")]
         ELSE IF c = "!" THEN [st EXCEPT !.is_single = TRUE, !.go = FALSE]
         ELSE IF c = "#" THEN [st EXCEPT !.is_double = TRUE, !.go = FALSE]
         ELSE [st EXCEPT !.go = FALSE]
    ELSE IF ~st.found_exp_sign /\ c \in {"+", "-"}
    THEN [st EXCEPT !.found_exp_sign = TRUE, !.exp_neg = (c = "-")]
    ELSE IF is_digit(c)
    THEN [st EXCEPT !.found_exp_sign = TRUE,
             !.exponent = @ * 10 + digit_value(c)]
    ELSE [st EXCEPT !.found_exp_sign = TRUE, !.go = FALSE]

float_scan_step(st, c) ==
    IF c \in number_whitespace THEN st
    ELSE IF ~st.found_sign
    THEN IF c \in {"+", "-"}
         THEN [st EXCEPT !.found_sign = TRUE, !.neg = (c = "-")]
         ELSE float_scan_body([st EXCEPT !.found_sign = TRUE], c)
    ELSE float_scan_body(st, c)

RECURSIVE float_scan(_, _)
float_scan(s, st) ==
    IF s = <<>> \/ ~st.go THEN st
    ELSE Only({float_scan(Tail(s), n) : n \in {float_scan_step(st, Head(s))}})

_str_to_float_counting_zeros(h, s, scr) ==
    Only({_float_from_exp10(h, st.neg, st.mantissa,
                            IF st.exp_neg THEN st.exp10 - st.exponent
                            ELSE st.exp10 + st.exponent,
                            st.is_double \/ (st.digits > 7 /\ ~st.is_single), scr) :
          st \in {float_scan(s, float_scan_start)}})

_str_to_float(h, s, scr) ==
    Only({_float_from_exp10(h, st.neg, st.mantissa,
                            IF st.exp_neg THEN st.exp10 - st.exponent
                            ELSE st.exp10 + st.exponent,
                            st.is_double \/ (st.digits - st.zeros > 7 /\ ~st.is_single),
                            scr) :
          st \in {float_scan(s, float_scan_start)}})

(***************************************************************************)
(* Number tokens (basictoken) and the stream a number is read from: ins is *)
(* its characters, pos the count of characters before the cursor.          *)
(***************************************************************************)
tk == [T_OCT |-> 11, T_HEX |-> 12, T_BYTE |-> 15, C_0 |-> 17, C_10 |-> 27,
       T_INT |-> 28, T_SINGLE |-> 29, T_DOUBLE |-> 31]

\* util.peek(ins) with the cursor at pos
peek(ins, pos) == IF pos < Len(ins) THEN ins[pos + 1] ELSE ""

\* what tokenise_number leaves: the token written to outs and the cursor of
\* ins; word and loop_pos are the word and the cursor as the accumulation
\* loop of _tokenise_dec left them, stop the branch that ended the loop
Tokenised(token, pos, st, scr) ==
    [kind |-> "token", val |-> NoValue, val2 |-> NoValue, num |-> 0, err |-> "",
     earg |-> NoFloat, screen |-> scr, token |-> token, pos |-> pos,
     word |-> st.word, loop_pos |-> st.pos, stop |-> st.stop,
     have_exp |-> st.have_exp, have_point |-> st.have_point, kill |-> st.kill]

dec_start(pos) ==
    [pos |-> pos, word |-> <<>>, have_exp |-> FALSE, have_point |-> FALSE,
     kill |-> FALSE, stop |-> ""]

dec_step_point_after_exponent(ins, st, c) ==
    IF c = "" THEN [st EXCEPT !.stop = "end"]
    ELSE IF c \in separators THEN [st EXCEPT !.pos = @ + 1, !.kill = TRUE]
    ELSE IF c = "." /\ ~st.have_point
    THEN [st EXCEPT !.pos = @ + 1, !.have_point = TRUE, !.word = Append(@, c)]
    ELSE IF c \in {"E", "D"} /\ ~st.have_exp
    THEN IF c = "E" /\ upper(peek(ins, st.pos + 1)) \in {"L", "Q"}
         THEN [st EXCEPT !.stop = "keyword"]
         ELSE [st EXCEPT !.pos = @ + 1, !.have_exp = TRUE, !.word = Append(@, c)]
    ELSE IF c \in {"-", "+"}
            /\ (st.word = <<>> \/ st.word[Len(st.word)] \in {"E", "D"})
    THEN [st EXCEPT !.pos = @ + 1, !.word = Append(@, c)]
    ELSE IF is_digit(c) THEN [st EXCEPT !.pos = @ + 1, !.word = Append(@, c)]
    ELSE IF c \in number_whitespace
    THEN [st EXCEPT !.pos = @ + 1, !.word = Append(@, c)]
    ELSE IF c \in {"!", "#"} /\ ~st.have_exp
    THEN [st EXCEPT !.pos = @ + 1, !.word = Append(@, c), !.stop = "suffix"]
    ELSE IF c = "%" THEN [st EXCEPT !.pos = @ + 1, !.stop = "percent"]
    ELSE [st EXCEPT !.stop = "other"]

dec_step_keyword_after_d(ins, st, c) ==
    IF c = "" THEN [st EXCEPT !.stop = "end"]
    ELSE IF c \in separators THEN [st EXCEPT !.pos = @ + 1, !.kill = TRUE]
    ELSE IF c = "." /\ ~st.have_point /\ ~st.have_exp
    THEN [st EXCEPT !.pos = @ + 1, !.have_point = TRUE, !.word = Append(@, c)]
    ELSE IF c \in {"E", "D"} /\ ~st.have_exp
    THEN IF upper(peek(ins, st.pos + 1)) \in {"L", "Q"}
         THEN [st EXCEPT !.stop = "keyword"]
         ELSE [st EXCEPT !.pos = @ + 1, !.have_exp = TRUE, !.word = Append(@, c)]
    ELSE IF c \in {"-", "+"}
            /\ (st.word = <<>> \/ st.word[Len(st.word)] \in {"E", "D"})
    THEN [st EXCEPT !.pos = @ + 1, !.word = Append(@, c)]
    ELSE IF is_digit(c) THEN [st EXCEPT !.pos = @ + 1, !.word = Append(@, c)]
    ELSE IF c \in number_whitespace
    THEN [st EXCEPT !.pos = @ + 1, !.word = Append(@, c)]
    ELSE IF c \in {"!", "#"} /\ ~st.have_exp
    THEN [st EXCEPT !.pos = @ + 1, !.word = Append(@, c), !.stop = "suffix"]
    ELSE IF c = "%" THEN [st EXCEPT !.pos = @ + 1, !.stop = "percent"]
    ELSE [st EXCEPT !.stop = "other"]

dec_step_suffix_after_exponent(ins, st, c) ==
    IF c = "" THEN [st EXCEPT !.stop = "end"]
    ELSE IF c \in separators THEN [st EXCEPT !.pos = @ + 1, !.kill = TRUE]
    ELSE IF c = "." /\ ~st.have_point /\ ~st.have_exp
    THEN [st EXCEPT !.pos = @ + 1, !.have_point = TRUE, !.word = Append(@, c)]
    ELSE IF c \in {"E", "D"} /\ ~st.have_exp
    THEN IF c = "E" /\ upper(peek(ins, st.pos + 1)) \in {"L", "Q"}
         THEN [st EXCEPT !.stop = "keyword"]
         ELSE [st EXCEPT !.pos = @ + 1, !.have_exp = TRUE, !.word = Append(@, c)]
    ELSE IF c \in {"-", "+"}
            /\ (st.word = <<>> \/ st.word[Len(st.word)] \in {"E", "D"})
    THEN [st EXCEPT !.pos = @ + 1, !.word = Append(@, c)]
    ELSE IF is_digit(c) THEN [st EXCEPT !.pos = @ + 1, !.word = Append(@, c)]
    ELSE IF c \in number_whitespace
    THEN [st EXCEPT !.pos = @ + 1, !.word = Append(@, c)]
    ELSE IF c \in {"!", "#"}
    THEN [st EXCEPT !.pos = @ + 1, !.word = Append(@, c), !.stop = "suffix"]
    ELSE IF c = "%" THEN [st EXCEPT !.pos = @ + 1, !.stop = "percent"]
    ELSE [st EXCEPT !.stop = "other"]

\* one pass of the loop of _tokenise_dec, c the character read
dec_step(ins, st, c) ==
    IF c = "" THEN [st EXCEPT !.stop = "end"]
    ELSE IF c \in separators THEN [st EXCEPT !.pos = @ + 1, !.kill = TRUE]
    ELSE IF c = "." /\ ~st.have_point /\ ~st.have_exp
    THEN [st EXCEPT !.pos = @ + 1, !.have_point = TRUE, !.word = Append(@, c)]
    ELSE IF c \in {"E", "D"} /\ ~st.have_exp
    THEN IF c = "E" /\ upper(peek(ins, st.pos + 1)) \in {"L", "Q"}
         THEN [st EXCEPT !.stop = "keyword"]
         ELSE [st EXCEPT !.pos = @ + 1, !.have_exp = TRUE, !.word = Append(@, c)]
    ELSE IF c \in {"-", "+"}
            /\ (st.word = <<>> \/ st.word[Len(st.word)] \in {"E", "D"})
    THEN [st EXCEPT !.pos = @ + 1, !.word = Append(@, c)]
    ELSE IF is_digit(c) THEN [st EXCEPT !.pos = @ + 1, !.word = Append(@, c)]
    ELSE IF c \in number_whitespace
    THEN [st EXCEPT !.pos = @ + 1, !.word = Append(@, c)]
    ELSE IF c \in {"!", "#"} /\ ~st.have_exp
    THEN [st EXCEPT !.pos = @ + 1, !.word = Append(@, c), !.stop = "suffix"]
    ELSE IF c = "%" THEN [st EXCEPT !.pos = @ + 1, !.stop = "percent"]
    ELSE [st EXCEPT !.stop = "other"]

RECURSIVE dec_loop(_, _)
dec_loop(ins, st) ==
    IF st.stop # "" THEN st
    ELSE Only({dec_loop(ins, n) : n \in {dec_step(ins, st, upper(peek(ins, st.pos)))}})

RECURSIVE trailing_whitespace(_)
\* how many times the loop that gives trailing whitespace back runs
trailing_whitespace(word) ==
    IF word # <<>> /\ word[Len(word)] \in number_whitespace
    THEN 1 + trailing_whitespace(SubSeq(word, 1, Len(word) - 1))
    ELSE 0

RECURSIVE trim(_)
\* the word without its whitespace
trim(word) ==
    IF word = <<>> THEN <<>>
    ELSE (IF Head(word) \in number_whitespace THEN <<>> ELSE <<Head(word)>>)
         \o trim(Tail(word))

write_number_byte_256(h, word, have_exp, have_point, scr) ==
    IF Len(word) = 1 /\ is_digit(word[1])
    THEN Ret(<<17 + str_to_int(word)>>, scr)
    ELSE IF ~(have_exp \/ have_point \/ word[Len(word)] \in {"!", "#"})
            /\ str_to_int(word) <= 32767 /\ str_to_int(word) >= -32768
    THEN IF str_to_int(word) <= 256 /\ str_to_int(word) >= 0
         THEN Ret(<<tk.T_BYTE, str_to_int(word)>>, scr)
         ELSE Ret(<<tk.T_INT>> \o to_bytes(int_to_integer(str_to_int(word), FALSE, scr).val),
                  scr)
    ELSE Only({IF mbf.kind # "value" THEN mbf
               ELSE IF Len(mbf.val.bytes) = 4
               THEN Ret(<<tk.T_SINGLE>> \o mbf.val.bytes, mbf.screen)
               ELSE Ret(<<tk.T_DOUBLE>> \o mbf.val.bytes, mbf.screen) :
               mbf \in {_str_to_float(h, word, scr)}})

\* the token written for the trimmed word
write_number(h, word, have_exp, have_point, scr) ==
    IF Len(word) = 1 /\ is_digit(word[1])
    THEN Ret(<<17 + str_to_int(word)>>, scr)
    ELSE IF ~(have_exp \/ have_point \/ word[Len(word)] \in {"!", "#"})
            /\ str_to_int(word) <= 32767 /\ str_to_int(word) >= -32768
    THEN IF str_to_int(word) <= 255 /\ str_to_int(word) >= 0
         THEN Ret(<<tk.T_BYTE, str_to_int(word)>>, scr)
         ELSE Ret(<<tk.T_INT>> \o to_bytes(int_to_integer(str_to_int(word), FALSE, scr).val),
                  scr)
    ELSE Only({IF mbf.kind # "value" THEN mbf
               ELSE IF Len(mbf.val.bytes) = 4
               THEN Ret(<<tk.T_SINGLE>> \o mbf.val.bytes, mbf.screen)
               ELSE Ret(<<tk.T_DOUBLE>> \o mbf.val.bytes, mbf.screen) :
               mbf \in {_str_to_float(h, word, scr)}})

_tokenise_dec_keeping_digits(h, ins, pos, scr) ==
    Only({Only({IF out.kind # "value" THEN out
                ELSE Tokenised(out.val, st.pos - trailing_whitespace(st.word), st,
                               out.screen) :
                out \in {write_number(h, trim(st.word), st.have_exp, st.have_point,
                                      scr)}}) :
          st \in {dec_loop(ins, dec_start(pos))}})

_tokenise_dec(h, ins, pos, scr) ==
    Only({Only({Only({IF out.kind # "value" THEN out
                      ELSE Tokenised(out.val, st.pos - trailing_whitespace(word), st,
                                     out.screen) :
                      out \in {write_number(h, trim(word), st.have_exp,
                                            st.have_point, scr)}}) :
                word \in {IF st.kill THEN <<"0">> ELSE st.word}}) :
          st \in {dec_loop(ins, dec_start(pos))}})

\* string.hexdigits and string.octdigits
hexdigits ==
    <<"0", "1", "2", "3", "4", "5", "6", "7", "8", "9",
      "a", "b", "c", "d", "e", "f", "A", "B", "C", "D", "E", "F">>

is_hexdigit(c) == \E i \in 1..22 : hexdigits[i] = c

is_octdigit(c) == \E i \in 1..8 : string_digits[i] = c

\* the value int(c, 16) gives a hex digit
hex_value(c) ==
    Only({IF i <= 16 THEN i - 1 ELSE i - 7 :
          i \in {CHOOSE i \in 1..22 : hexdigits[i] = c}})

RECURSIVE int_base(_, _, _)
\* int(s, base) of a run of digits, after the value acc of those before
int_base(s, base, acc) ==
    IF s = <<>> THEN acc
    ELSE int_base(Tail(s), base, base * acc + hex_value(Head(s)))

\* what a loop of _tokenise_hex or _tokenise_oct leaves, in the shape of
\* the decimal loop's state
based_state(word, pos, name) ==
    [dec_start(pos) EXCEPT !.word = word, !.stop = name]

RECURSIVE hex_loop(_, _, _)
\* the loop of _tokenise_hex: <<word, cursor>>
hex_loop(ins, pos, word) ==
    IF ~is_hexdigit(peek(ins, pos)) THEN <<word, pos>>
    ELSE Only({hex_loop(ins, p, w) :
               p \in {pos + 1}, w \in {Append(word, peek(ins, pos))}})

_tokenise_hex_signed(ins, pos, scr) ==
    Only({Only({IF r.kind # "value" THEN r
                ELSE Tokenised(<<tk.T_HEX>> \o to_bytes(r.val), l[2],
                               based_state(l[1], l[2], "hex"), scr) :
                r \in {int_to_integer(IF l[1] # <<>> THEN int_base(l[1], 16, 0) ELSE 0,
                                      FALSE, scr)}}) :
          l \in {hex_loop(ins, pos + 1, <<>>)}})

\* pos is the cursor on the H
_tokenise_hex(ins, pos, scr) ==
    Only({Only({IF r.kind # "value" THEN r
                ELSE Tokenised(<<tk.T_HEX>> \o to_bytes(r.val), l[2],
                               based_state(l[1], l[2], "hex"), scr) :
                r \in {int_to_integer(IF l[1] # <<>> THEN int_base(l[1], 16, 0) ELSE 0,
                                      TRUE, scr)}}) :
          l \in {hex_loop(ins, pos + 1, <<>>)}})

RECURSIVE oct_loop(_, _, _)
\* the loop of _tokenise_oct: <<word, cursor>>
oct_loop(ins, pos, word) ==
    IF peek(ins, pos) \in number_whitespace
    THEN Only({oct_loop(ins, p, word) : p \in {pos + 1}})
    ELSE IF ~is_octdigit(peek(ins, pos)) THEN <<word, pos>>
    ELSE Only({oct_loop(ins, p, w) :
               p \in {pos + 1}, w \in {Append(word, peek(ins, pos))}})

\* pos is the cursor after the '&'
_tokenise_oct(ins, pos, scr) ==
    Only({Only({IF r.kind # "value" THEN r
                ELSE Tokenised(<<tk.T_OCT>> \o to_bytes(r.val), l[2],
                               based_state(l[1], l[2], "oct"), scr) :
                r \in {int_to_integer(IF l[1] # <<>> THEN int_base(l[1], 8, 0) ELSE 0,
                                      TRUE, scr)}}) :
          l \in {oct_loop(ins, IF upper(peek(ins, pos)) = "O" THEN pos + 1 ELSE pos,
                           <<>>)}})

\* nothing is read or written when the stream is at its end or the
\* character is none that starts a number
tokenise_number(h, ins, pos, scr) ==
    IF peek(ins, pos) = "&"
    THEN IF upper(peek(ins, pos + 1)) = "H"
         THEN _tokenise_hex(ins, pos + 1, scr)
         ELSE _tokenise_oct(ins, pos + 1, scr)
    ELSE IF is_digit(peek(ins, pos)) \/ peek(ins, pos) \in {".", "+", "-"}
    THEN _tokenise_dec(h, ins, pos, scr)
    ELSE Tokenised(<<>>, pos, [dec_start(pos) EXCEPT !.stop = "none"], scr)

\* token_to_value of a number token
token_to_value(full_token) ==
    IF full_token = <<>> THEN NoValue
    ELSE IF full_token[1] \in {tk.T_OCT, tk.T_HEX, tk.T_INT, tk.T_SINGLE, tk.T_DOUBLE}
    THEN from_bytes(Tail(full_token))
    ELSE IF full_token[1] = tk.T_BYTE THEN from_bytes(Tail(full_token) \o <<0>>)
    ELSE IF tk.C_0 <= full_token[1] /\ full_token[1] <= tk.C_10
    THEN from_bytes(<<full_token[1] - 17, 0>>)
    ELSE NoValue

\* util.skip(ins, (' ', '\n')): the cursor after the blanks at pos
RECURSIVE skip_blanks(_, _)
skip_blanks(ins, pos) ==
    IF peek(ins, pos) \in {" ", "\n"} THEN skip_blanks(ins, pos + 1) ELSE pos

(***************************************************************************)
(* Operands.                                                               *)
(***************************************************************************)
MinInt == -32768
MaxInt == 32767
MaxUInt == 65535

\* Python integers that fit a BASIC Integer
IntSample ==
    (-Near..Near) \cup (MinInt..(MinInt + Edge)) \cup ((MaxInt - Edge)..MaxInt)
    \cup {255, 256}

\* Python integers around both 16 bit ranges, inside and outside, and
\* around the byte boundaries
PyIntSample ==
    IntSample \cup ((MinInt - Edge - 1)..(MinInt - 1)) \cup ((MaxInt + 1)..(MaxInt + Edge + 1))
    \cup ((MaxUInt - Edge)..(MaxUInt + Edge + 1))
    \cup {-257, -256, -255, -129, -128, 127, 128, 257, 4660, -4660, 43981}

I(n) == int_to_integer(n, FALSE, <<>>).val
S(q) == pack(from_quarters(SNG, q))
D(q) == pack(from_quarters(DBL, q))

Integers16 == {I(n) : n \in IntSample}

\* Singles by their value in quarters: 0, 1/4, 1/2, 1, 5/2 and the
\* neighbourhood of the Integer range limits
SingleQuarters ==
    {0, 1, -1, 2, -2, 4, -4, 10, 131068, 131070, 131072, -131072, -131073,
     -131074, 160000, -160000, 262140, 262142, 262144}

Singles ==
    {S(q) : q \in SingleQuarters}
    \cup {pack(Single_max), pack(signed_max(SNG, TRUE)), Value(SNG, <<0, 0, 128, 0>>)}

Doubles ==
    {D(q) : q \in {0, 4, -2, 131070, -160000}} \cup {pack(Double_max)}

Strings == {stored(i) : i \in 1..Len(StringTable)}

AddOperands ==
    Integers16
    \cup {S(2), S(-131072), S(131072), pack(Single_max), pack(signed_max(SNG, TRUE)),
          D(4), pack(Double_max), stored(2)}

DivOperands ==
    Integers16
    \cup {S(0), S(1), S(-1), S(2), S(10), S(160000), S(-160000), D(0), D(-2),
          pack(signed_max(SNG, TRUE)), pack(Double_max), stored(2)}

BitOperands == Integers16 \cup {S(4), S(-2), S(262140), D(4), stored(2)}

CmpOperands ==
    {I(n) : n \in {MinInt, -1, 0, 1, MaxInt}}
    \cup {S(q) : q \in {0, 2, 4, -4, 131072}}
    \cup {pack(Single_max), pack(signed_max(SNG, TRUE)), Value(SNG, <<0, 0, 128, 0>>)}
    \cup {D(0), D(4), D(-2), pack(Double_max)}
    \cup Strings

\* the characters every short input is made of
Alphabet == {"1", ".", "-", "E", "D", "L", " ", "%", "!", "<FS>"}

\* longer inputs: literals at the limits of the token forms, with the other
\* signs, suffixes, letters and separators
Literals ==
    {<<"1", "E", "5", "!">>,
     <<"1", "D", "5", "!">>,
     <<"1", "E", "5", "#">>,
     <<"1", "E", "5", "%">>,
     <<"5", "#">>,
     <<"1", "2", "3", "4", "5", "6", "7", "8", "#">>,
     <<"5">>,
     <<"+", "5">>,
     <<"2", "5", "5">>,
     <<"2", "5", "6">>,
     <<"3", "2", "7", "6", "7">>,
     <<"3", "2", "7", "6", "8">>,
     <<"-", "3", "2", "7", "6", "8">>,
     <<"-", "3", "2", "7", "6", "9">>,
     <<"1", "E", "5">>,
     <<"1", "D", "5">>,
     <<"1", "e", "5">>,
     <<"1", "d", "5">>,
     <<"1", "2", "3", "4", "5", "6", "7">>,
     <<"1", "2", "3", "4", "5", "6", "7", "8">>,
     <<"1", "2", "3", "4", "5", "6", "7", "8", "!">>,
     <<"1", ".", "0", "0", "0", "0", "0", "0", "0">>,
     <<"1", ".", "0", "0", "0", "0", "0", "0", "1">>,
     <<"1", "#">>,
     <<"1", "0", "0", ".", "5">>,
     <<"1", "E", "L">>,
     <<"1", "e", "q">>,
     <<"1", " ", "E", "L">>,
     <<"1", "D", "L">>,
     <<"1", "E", "l">>,
     <<"+", "E", "Q">>,
     <<"1", "2", " ", "%">>,
     <<"1", "2", "%", " ">>,
     <<"1", " ", "2", " ">>,
     <<"1", "2", " ", " ", "X">>,
     <<"-", " ", "5">>,
     <<"1", "E", " ", "5">>,
     <<"1", "<GS>", "2">>,
     <<"1", ".", "5", "E", "3", "<US>", "#">>,
     <<"1", " ", "<FS>", " ", "X">>,
     <<"1", "E", "3", "9">>,
     <<"1", "E", "-", "4", "0">>,
     <<"-", "1", "D", "3", "9">>}

\* what the stream holds when a number is tokenised
\* the characters of the short inputs that follow a '&'
AmpAlphabet == {"H", "O", "1", "7", "F", " ", "G"}

\* longer hex and octal constants, at the limit of 16 bits
AmpLiterals ==
    {<<"&", "H", "F", "F", "F", "F">>,
     <<"&", "H", "1", "0", "0", "0", "0">>,
     <<"&", "h", "f", "f", " ", "1">>,
     <<"&", "H", "8", "0", "0", "0", "G">>,
     <<"&", "O", "1", "7", "7", "7", "7", "7">>,
     <<"&", "O", "2", "0", "0", "0", "0", "0">>,
     <<"&", "o", "1", " ", "7", "\t", "8">>,
     <<"&", "1", "0", "0", " ">>,
     <<" ", "&", "H", "1", "F">>}

Inputs ==
    UNION {[1..n -> Alphabet] : n \in 0..MaxLen} \cup Literals
    \cup {<<"&">> \o t : t \in UNION {[1..n -> AmpAlphabet] : n \in 0..MaxLen}}
    \cup AmpLiterals

ConvOperands == Integers16 \cup Singles \cup Doubles \cup Strings

\* bases: 0, 4, -4, -1, 2^16, -2^16
PowBases ==
    {I(0), I(4), I(-4), S(0), S(-4), S(16), S(-16), S(262144), S(-262144),
     D(-262144), D(16), D(0), stored(2)}

\* exponents: 0, 1, 3, -1, 9, 99, 100, 1/2
PowExponents ==
    {I(0), I(1), I(3), I(-1), S(0), S(4), S(12), S(-4), S(36), S(396), S(400), S(2),
     D(36), D(12), D(400), stored(2)}

\* arguments of sqr: 0, 4, -1
SqrOperands == {I(0), I(4), I(-1), S(0), S(16), S(-4), D(0), D(16), D(-4), stored(2)}

\* arguments of exp: 0, 100, 1000 and the Double maximum
ExpOperands ==
    {I(0), S(0), S(400), S(4000), D(0), D(400), pack(Double_max), stored(2)}

\* exceptions a float-safe operation can hand to the handler
Exceptions ==
    {PyExc(c, a, <<>>) :
        c \in {ValueError, OverflowError, ZeroDivisionError, FloatingPointError},
        a \in {NoFloat, Single_max, signed_max(SNG, TRUE), Double_max,
               signed_max(DBL, TRUE)}}

(***************************************************************************)
(* The formatter.  _get_digits builds its text with chr(); the text is     *)
(* kept here as the sequence of its character codes.  Its two loops are    *)
(* cut into their iterations: a frame holds the local variables.           *)
(***************************************************************************)
ord_0 == 48

\* the largest argument of chr()
chr_max == 255

Frame(kind, num, pow10, digit, digitstr) ==
    [kind |-> kind, num |-> num, pow10 |-> pow10, digit |-> digit,
     digitstr |-> digitstr]

\* pow10 = 10L**(digits-1); for digits = 0 that is the float 0.1, which the
\* loop only compares with 1 and which is kept as 0
get_digits_enter(num, digits) ==
    Frame("frame", num, IF digits >= 1 THEN 10 ^ (digits - 1) ELSE 0, ord_0, <<>>)

\* while num >= pow10: digit += 1; num -= pow10
while_num(f) == f.num >= f.pow10
count_down(f) == [f EXCEPT !.digit = @ + 1, !.num = @ - f.pow10]

\* digitstr += chr(digit); pow10 /= 10: chr() of a code above 255 raises
\* ValueError
put_digit(f) ==
    IF f.digit > chr_max THEN [f EXCEPT !.kind = "exception"]
    ELSE [f EXCEPT !.digitstr = Append(@, f.digit), !.pow10 = @ \div 10]

\* while len(digitstr)>1 and digitstr[-1] == '0': digitstr = digitstr[:-1]
while_trailing_always(digitstr) ==
    Len(digitstr) > 0 /\ digitstr[Len(digitstr)] = ord_0

while_trailing(digitstr) ==
    Len(digitstr) > 1 /\ digitstr[Len(digitstr)] = ord_0

drop_last(digitstr) == SubSeq(digitstr, 1, Len(digitstr) - 1)

\* the inner loop run to its end: pow10 has been taken from num as often
\* as it fits, and digit has counted the times
inner_loop(f) ==
    Only({[f EXCEPT !.digit = @ + times, !.num = @ - times * f.pow10] :
          times \in {f.num \div f.pow10}})

RECURSIVE outer_loop(_)
outer_loop(f) ==
    IF f.kind = "frame" /\ f.pow10 >= 1
    THEN Only({outer_loop(g) :
               g \in {put_digit(inner_loop([f EXCEPT !.digit = ord_0]))}})
    ELSE f

RECURSIVE trailing_loop(_)
trailing_loop(digitstr) ==
    IF while_trailing(digitstr) THEN trailing_loop(drop_last(digitstr))
    ELSE digitstr

\* the text as a frame of kind "str", or of kind "exception" for the
\* ValueError of chr()
_get_digits(num, digits, remove_trailing) ==
    Only({IF f.kind = "exception" THEN f
          ELSE [f EXCEPT !.kind = "str",
                         !.digitstr = IF remove_trailing THEN trailing_loop(@)
                                      ELSE @] :
          f \in {outer_loop(get_digits_enter(num, digits))}})

(***************************************************************************)
(* Number to text.  A text is a sequence of one-character strings.  The    *)
(* fp library's decimal range reduction, product, quotient and rounding    *)
(* are modelled from their contract, on the scaling by ten above.          *)
(***************************************************************************)
STX == "Syntax error"

RetText(text, scr) ==
    [kind |-> "text", val |-> NoValue, val2 |-> NoValue, num |-> 0, err |-> "",
     earg |-> NoFloat, screen |-> scr, text |-> text]

\* the characters of a text of digit codes
text_of(codes) ==
    [i \in 1..Len(codes) |->
        IF codes[i] \in 48..57 THEN string_digits[codes[i] - 47] ELSE "?"]

zeros(n) == [i \in 1..n |-> "0"]

RECURSIVE nat_str(_)
nat_str(n) ==
    IF n < 10 THEN <<string_digits[n + 1]>>
    ELSE Append(nat_str(n \div 10), string_digits[(n % 10) + 1])

\* str(n) of a Python int
py_str(n) == IF n < 0 THEN <<"-">> \o nat_str(-n) ELSE nat_str(n)

\* fp.Single.lim_top, lim_bot: 9999999 and 999999.9
Single_lim_top == unpack(Value(SNG, <<127, 150, 24, 152>>))
Single_lim_bot == unpack(Value(SNG, <<255, 35, 116, 148>>))

\* fp.Double.lim_top, lim_bot: just under 10^16 and 10^15
Double_lim_top == unpack(Value(DBL, <<255, 255, 3, 191, 201, 27, 14, 182>>))
Double_lim_bot == unpack(Value(DBL, <<255, 255, 159, 49, 169, 95, 99, 178>>))

lim_top(cls) == IF cls = DBL THEN Double_lim_top ELSE Single_lim_top
lim_bot(cls) == IF cls = DBL THEN Double_lim_bot ELSE Single_lim_bot
type_sign(cls) == IF cls = DBL THEN <<"#">> ELSE <<"!">>
exp_sign(cls) == IF cls = DBL THEN <<"D">> ELSE <<"E">>

\* Float.digits: the decimal precision of the type
fp_digits(cls) == IF cls = DBL THEN 16 ELSE 7

\* _just_under: the mantissa decreased by one
_just_under(n_in) == [n_in EXCEPT !.man = @ - 1]

RECURSIVE range_down(_, _, _)
\* while self.abs_gt(lim_top): self.idiv10(); exp10 += 1
range_down(f, top_, exp10) ==
    IF ~is_zero(f) /\ mag_gt(f, top_)
    THEN Only({range_down(g, top_, exp10 + 1) : g \in {idiv10(f)}})
    ELSE [f |-> f, exp10 |-> exp10]

RECURSIVE range_up(_, _, _)
\* while lim_bot.abs_gt(self): self.imul10(); exp10 -= 1
range_up(f, bot, exp10) ==
    IF ~is_zero(f) /\ mag_gt(bot, f)
    THEN Only({range_up(unpack(g.val), bot, exp10 - 1) : g \in {imul10(f, <<>>)}})
    ELSE [f |-> f, exp10 |-> exp10]

\* Float.bring_to_range(lim_bot, lim_top): the magnitude scaled by tens
\* into the range and rounded to an integer, and the power of ten taken out
bring_to_range(f, bot, top_) ==
    Only({[num |-> Abs(round_to_int(u.f)), exp10 |-> u.exp10] :
          u \in {Only({range_up(d.f, bot, d.exp10) :
                       d \in {range_down(f, top_, 0)}})}})

_scientific_notation(digitstr, exp10, exp_sign_, digits_to_dot, force_dot) ==
    LET head == SubSeq(digitstr, 1, digits_to_dot)
        mant == IF Len(digitstr) > digits_to_dot
                THEN head \o <<".">> \o SubSeq(digitstr, digits_to_dot + 1, Len(digitstr))
                ELSE IF Len(digitstr) = digits_to_dot /\ force_dot
                THEN head \o <<".">>
                ELSE head
        exponent == exp10 - digits_to_dot + 1
    IN  mant \o exp_sign_ \o (IF exponent < 0 THEN <<"-">> ELSE <<"+">>)
             \o text_of(_get_digits(Abs(exponent), 2, FALSE).digitstr)

_decimal_notation(digitstr, exp10_, type_sign_, force_dot) ==
    LET exp10 == exp10_ + 1
        sharp == IF type_sign_ = <<"#">> THEN type_sign_ ELSE <<>>
    IN  IF exp10 >= Len(digitstr)
        THEN digitstr \o zeros(exp10 - Len(digitstr))
                 \o (IF force_dot THEN <<".">> ELSE <<>>)
                 \o (IF ~force_dot \/ type_sign_ = <<"#">> THEN type_sign_ ELSE <<>>)
        ELSE IF exp10 > 0
        THEN SubSeq(digitstr, 1, exp10) \o <<".">>
                 \o SubSeq(digitstr, exp10 + 1, Len(digitstr)) \o sharp
        ELSE (IF force_dot THEN <<"0">> ELSE <<>>)
                 \o <<".">> \o zeros(-exp10) \o digitstr \o sharp

float_to_str(n_in_, screen_, write) ==
    LET n_in == unpack(n_in_)
        sign == IF n_in.neg THEN <<"-">>
                ELSE IF screen_ /\ ~write THEN <<" ">> ELSE <<>>
    IN  IF is_zero(n_in)
        THEN IF screen_ /\ ~write THEN <<" ", "0">>
             ELSE IF write THEN <<"0">>
             ELSE <<"0">> \o type_sign(n_in.cls)
        ELSE Only({Only({
            IF exp10 > fp_digits(n_in.cls) - 1
               \/ Len(digitstr) - exp10 > fp_digits(n_in.cls) + 1
            THEN sign \o _scientific_notation(digitstr, exp10, exp_sign(n_in.cls),
                                              1, FALSE)
            ELSE sign \o _decimal_notation(digitstr, exp10,
                             IF screen_ \/ write THEN <<>> ELSE type_sign(n_in.cls),
                             FALSE) :
            digitstr \in {text_of(_get_digits(b.num, fp_digits(n_in.cls), TRUE).digitstr)},
            exp10 \in {b.exp10 + fp_digits(n_in.cls) - 1}}) :
            b \in {bring_to_range(n_in, lim_bot(n_in.cls), lim_top(n_in.cls))}})

number_to_str_bare(inp, screen_, write, scr) ==
    IF inp = NoValue THEN RunError(STX, scr)
    ELSE IF inp.tag = INT
    THEN RetText(py_str(integer_to_int(inp, FALSE)), scr)
    ELSE IF inp.tag \in {SNG, DBL}
    THEN RetText(float_to_str(inp, screen_, write), scr)
    ELSE RunError(TYPE_MISMATCH, scr)

number_to_str(inp, screen_, write, scr) ==
    IF inp = NoValue THEN RunError(STX, scr)
    ELSE IF inp.tag = INT
    THEN IF screen_ /\ ~write /\ integer_to_int(inp, FALSE) >= 0
         THEN RetText(<<" ">> \o py_str(integer_to_int(inp, FALSE)), scr)
         ELSE RetText(py_str(integer_to_int(inp, FALSE)), scr)
    ELSE IF inp.tag \in {SNG, DBL}
    THEN RetText(float_to_str(inp, screen_, write), scr)
    ELSE RunError(TYPE_MISMATCH, scr)

(***************************************************************************)
(* PRINT USING.  tokens is the template, a text.                           *)
(***************************************************************************)
RECURSIVE find_exp10(_, _, _)
\* while num.gt(pow10) or num.equals(pow10): pow10.imul10(); exp10 += 1
\* on the whole numbers num and pow10 stand for
find_exp10(num, pow10, exp10) ==
    IF num >= pow10 THEN find_exp10(num, pow10 * 10, exp10 + 1) ELSE exp10

\* fp.mul(expr, fp.pow_int(expr.ten, n)) and fp.div(expr, fp.pow_int(expr.ten, n))
mul_pow10(expr, n) == unpack(scale10(Ret(pack(expr), <<>>), n, TRUE).val)
div_pow10(expr, n) == unpack(scale10(Ret(pack(expr), <<>>), n, FALSE).val)

_format_float_fixed(expr, decimals, force_dot) ==
    Only({Only({
        LET diff == IF exp10 > fp_digits(expr.cls) THEN exp10 - fp_digits(expr.cls) ELSE 0
            num == IF diff > 0 THEN Abs(round_to_int(div_pow10(unrounded, diff)))
                   ELSE Abs(round_to_int(unrounded))
            work_digits == exp10 + 1 - diff
            digitstr == text_of(_get_digits(num, work_digits - 1, FALSE).digitstr)
                            \o zeros(diff)
        IN  _decimal_notation(digitstr, work_digits - 1 - 1 - decimals + diff, <<>>,
                              force_dot) :
        exp10 \in {find_exp10(Abs(round_to_int(unrounded)), 10, 1)}}) :
        unrounded \in {mul_pow10(expr, decimals)}})

pad_zeros(digitstr, n) ==
    IF Len(digitstr) < n THEN digitstr \o zeros(n - Len(digitstr)) ELSE digitstr

_format_float_scientific(expr, digits_before, decimals, force_dot) ==
    LET work_digits == IF digits_before + decimals > fp_digits(expr.cls)
                       THEN fp_digits(expr.cls)
                       ELSE digits_before + decimals
        bump == (IF work_digits = 0 THEN 1 ELSE 0) + digits_before + decimals - 1
    IN  IF is_zero(expr) /\ ~force_dot
        THEN IF exp_sign(expr.cls) = <<"E">> THEN <<"E", "+", "0", "0">>
             ELSE <<"0", "D", "+", "0", "0">>
        ELSE IF is_zero(expr)
        THEN _scientific_notation(zeros(digits_before + decimals), bump,
                                  exp_sign(expr.cls), digits_before, force_dot)
        ELSE Only({Only({
                 _scientific_notation(
                     pad_zeros(text_of(_get_digits(b.num, work_digits, TRUE).digitstr),
                               digits_before + decimals),
                     b.exp10 + bump, exp_sign(expr.cls), digits_before, force_dot) :
                 b \in {bring_to_range(expr, bot,
                                       unpack(imul10(bot, <<>>).val))}}) :
                 bot \in {IF work_digits > 0
                          THEN _just_under(from_int(expr.cls, 10 ^ (work_digits - 1)))
                          ELSE from_int(expr.cls, 1)}})

has(tokens, c) == \E i \in 1..Len(tokens) : tokens[i] = c

\* the text before the padding: sign, currency sign, digits, trailing sign
format_number_text(value_, tokens, digits_before_, decimals) ==
    LET value == unpack(value_)
        has_dollar == has(tokens, "$")
        force_dot == has(tokens, ".")
        lead == tokens[1] = "+"
        trail_plus == ~lead /\ tokens[Len(tokens)] = "+"
        trail_minus == ~lead /\ ~trail_plus /\ tokens[Len(tokens)] = "-"
        plain == ~lead /\ ~trail_plus /\ ~trail_minus
        sign == IF lead THEN (IF value.neg THEN <<"-">> ELSE <<"+">>)
                ELSE IF plain /\ value.neg THEN <<"-">>
                ELSE <<>>
        post_sign == IF trail_plus THEN (IF value.neg THEN <<"-">> ELSE <<"+">>)
                     ELSE IF trail_minus THEN (IF value.neg THEN <<"-">> ELSE <<" ">>)
                     ELSE <<>>
        digits_before == IF plain /\ ~has_dollar
                         THEN (IF digits_before_ - 1 < 0 THEN 0 ELSE digits_before_ - 1)
                         ELSE digits_before_
        absolute == [value EXCEPT !.neg = FALSE]
    IN  sign \o (IF has_dollar THEN <<"$">> ELSE <<>>)
             \o (IF has(tokens, "^")
                 THEN _format_float_scientific(absolute, digits_before, decimals, force_dot)
                 ELSE _format_float_fixed(absolute, decimals, force_dot))
             \o post_sign

filler(tokens) == IF has(tokens, "*") THEN "*" ELSE " "

\* the template's width is kept by padding on the left, or marked as
\* exceeded by a leading percent sign
fit(valstr, tokens, scr) ==
    IF Len(valstr) > Len(tokens) THEN RetText(<<"%">> \o valstr, scr)
    ELSE RetText([i \in 1..(Len(tokens) - Len(valstr)) |-> filler(tokens)]
                     \o valstr, scr)

format_number_truncating(value, tokens, digits_before, decimals, scr) ==
    IF digits_before + decimals > 24 THEN RunError(IFC, scr)
    ELSE Only({
        IF Len(valstr) > Len(tokens)
        THEN RetText(SubSeq(valstr, Len(valstr) - Len(tokens) + 1, Len(valstr)), scr)
        ELSE fit(valstr, tokens, scr) :
        valstr \in {format_number_text(value, tokens, digits_before, decimals)}})

format_number_overflowing(value, tokens, digits_before, decimals, scr) ==
    IF digits_before + decimals > 24 THEN RunError(OVERFLOW, scr)
    ELSE fit(format_number_text(value, tokens, digits_before, decimals), tokens, scr)

format_number(value, tokens, digits_before, decimals, scr) ==
    IF digits_before + decimals > 24 THEN RunError(IFC, scr)
    ELSE fit(format_number_text(value, tokens, digits_before, decimals), tokens, scr)

str_to_number_no_skip(h, strval, scr) ==
    Only({IF Failed(t) THEN t
          ELSE IF token_to_value(t.token) = NoValue THEN Ret(null(INT), t.screen)
          ELSE Ret(token_to_value(t.token), t.screen) :
          t \in {tokenise_number(h, strval, 0, scr)}})

\* Values.str_to_number(strval), with allow_nonnum at its default
str_to_number(h, strval, scr) ==
    Only({IF Failed(t) THEN t
          ELSE Only({IF value = NoValue THEN Ret(null(INT), t.screen)
                     ELSE Ret(value, t.screen) :
                     value \in {token_to_value(t.token)}}) :
          t \in {tokenise_number(h, strval, skip_blanks(strval, 0), scr)}})

(***************************************************************************)
(* The state machine.                                                      *)
(***************************************************************************)
handler == [do_raise |-> do_raise, has_screen |-> has_screen,
            double_math |-> double_math]

Init ==
    /\ do_raise = FALSE
    /\ has_screen \in BOOLEAN
    /\ screen = <<>>
    /\ before = <<>>
    /\ double_math \in BOOLEAN
    /\ pc = "ready"
    /\ op = ""
    /\ args = <<>>
    /\ result = NoResult
    /\ user_function_parsing = {}
    /\ scalars = <<>>
    /\ fn_stack = <<>>

\* a call can be made: none is in progress and the display has room
Ready == pc = "ready" /\ Len(screen) < MaxLines

\* an operation is called with operands a and ends with outcome r
Call(name, a, r) ==
    \E out \in {r} :
        /\ pc' = "done"
        /\ op' = name
        /\ args' = a
        /\ result' = out
        /\ screen' = out.screen
        /\ before' = screen
        /\ UNCHANGED <<do_raise, has_screen, double_math>>
        /\ UNCHANGED fn_vars

\* the caller takes the outcome
Return ==
    /\ pc = "done"
    /\ pc' = "ready"
    /\ op' = ""
    /\ args' = <<>>
    /\ result' = NoResult
    /\ before' = screen
    /\ UNCHANGED <<do_raise, has_screen, double_math, screen>>
    /\ UNCHANGED fn_vars

PauseHandling ==
    /\ pc = "ready"
    /\ \E do_raise_ \in BOOLEAN : do_raise' = do_raise_
    /\ UNCHANGED <<has_screen, screen, before, double_math, pc, op, args, result>>
    /\ UNCHANGED fn_vars

Handle ==
    /\ Ready
    /\ \E e \in Exceptions :
          Call("handle", <<e>>, handle(handler, [e EXCEPT !.screen = screen]))

Null ==
    /\ Ready
    /\ \E sigil \in {INT, SNG, DBL, STR} : Call("null", <<sigil>>, Ret(null(sigil), screen))

FromBytes ==
    /\ Ready
    /\ \E x \in ConvOperands :
          Call("from_bytes", <<to_bytes(x)>>, Ret(from_bytes(to_bytes(x)), screen))

FromBool ==
    /\ Ready
    /\ \E boo \in BOOLEAN : Call("from_bool", <<boo>>, from_bool(boo, screen))

IntToInteger ==
    /\ Ready
    /\ \E n \in PyIntSample, u \in BOOLEAN :
          Call("int_to_integer", <<n, u>>, int_to_integer(n, u, screen))

ToInteger ==
    /\ Ready
    /\ \E x \in ConvOperands, u \in BOOLEAN :
          Call("to_integer", <<x, u>>, to_integer(x, u, screen))

ToSingle ==
    /\ Ready
    /\ \E x \in ConvOperands : Call("to_single", <<x>>, to_single(handler, x, screen))

ToDouble ==
    /\ Ready
    /\ \E x \in ConvOperands : Call("to_double", <<x>>, to_double(handler, x, screen))

ToMostPrecise ==
    /\ Ready
    /\ \E l \in AddOperands, r \in AddOperands :
          Call("to_most_precise", <<l, r>>, to_most_precise(handler, l, r, screen))

Negate ==
    /\ Ready
    /\ \E x \in ConvOperands : Call("negate", <<x>>, negate(x, screen))

AbsoluteValue ==
    /\ Ready
    /\ \E x \in ConvOperands : Call("abs", <<x>>, abs(x, screen))

\* tokenise_number with the stream past its leading blanks, as
\* str_to_number positions it
TokeniseNumber ==
    /\ Ready
    /\ \E ins \in Inputs :
          Call("tokenise_number", <<ins>>,
               tokenise_number(handler, ins, skip_blanks(ins, 0), screen))

Add ==
    /\ Ready
    /\ \E l \in AddOperands, r \in AddOperands :
          Call("add", <<l, r>>, add(handler, l, r, screen))

Subtract ==
    /\ Ready
    /\ \E l \in AddOperands, r \in AddOperands :
          Call("subtract", <<l, r>>, subtract(handler, l, r, screen))

DivideInt ==
    /\ Ready
    /\ \E l \in DivOperands, r \in DivOperands :
          Call("divide_int", <<l, r>>, divide_int(handler, l, r, screen))

Mod ==
    /\ Ready
    /\ \E l \in DivOperands, r \in DivOperands :
          Call("mod", <<l, r>>, mod(handler, l, r, screen))

Power ==
    /\ Ready
    /\ \E l \in PowBases, r \in PowExponents :
          Call("power", <<l, r>>, power(handler, l, r, screen))

Sqr ==
    /\ Ready
    /\ \E x \in SqrOperands : Call("sqr", <<x>>, sqr(handler, x, screen))

Exp ==
    /\ Ready
    /\ \E x \in ExpOperands : Call("exp", <<x>>, exp(handler, x, screen))

BitwiseNot ==
    /\ Ready
    /\ \E x \in BitOperands : Call("bitwise_not", <<x>>, bitwise_not(x, screen))

BitwiseAnd ==
    /\ Ready
    /\ \E l \in BitOperands, r \in BitOperands :
          Call("bitwise_and", <<l, r>>, bitwise_and(l, r, screen))

BitwiseOr ==
    /\ Ready
    /\ \E l \in BitOperands, r \in BitOperands :
          Call("bitwise_or", <<l, r>>, bitwise_or(l, r, screen))

BitwiseXor ==
    /\ Ready
    /\ \E l \in BitOperands, r \in BitOperands :
          Call("bitwise_xor", <<l, r>>, bitwise_xor(l, r, screen))

BitwiseEqv ==
    /\ Ready
    /\ \E l \in BitOperands, r \in BitOperands :
          Call("bitwise_eqv", <<l, r>>, bitwise_eqv(l, r, screen))

BitwiseImp ==
    /\ Ready
    /\ \E l \in BitOperands, r \in BitOperands :
          Call("bitwise_imp", <<l, r>>, bitwise_imp(l, r, screen))

Equals ==
    /\ Ready
    /\ \E l \in CmpOperands, r \in CmpOperands :
          Call("equals", <<l, r>>, equals(handler, l, r, screen))

NotEquals ==
    /\ Ready
    /\ \E l \in CmpOperands, r \in CmpOperands :
          Call("not_equals", <<l, r>>, not_equals(handler, l, r, screen))

Gt ==
    /\ Ready
    /\ \E l \in CmpOperands, r \in CmpOperands :
          Call("gt", <<l, r>>, gt(handler, l, r, screen))

Gte ==
    /\ Ready
    /\ \E l \in CmpOperands, r \in CmpOperands :
          Call("gte", <<l, r>>, gte(handler, l, r, screen))

Lte ==
    /\ Ready
    /\ \E l \in CmpOperands, r \in CmpOperands :
          Call("lte", <<l, r>>, lte(handler, l, r, screen))

Lt ==
    /\ Ready
    /\ \E l \in CmpOperands, r \in CmpOperands :
          Call("lt", <<l, r>>, lt(handler, l, r, screen))

\* 1 + 2^-23, the Single next above one
Single_above_one == Value(SNG, <<1, 0, 0, 129>>)

\* whole Singles of up to seven digits
WholeSingles ==
    {S(0), S(4), S(28), S(-28), S(-40), S(400), S(131072), S(-131076),
     pack(from_int(SNG, 1000000)), pack(from_int(SNG, -1234567)),
     pack(from_int(SNG, 9999999))}

FormatNumbers ==
    Integers16
    \cup WholeSingles
    \cup {S(1), S(-10), S(3), pack(from_int(SNG, 10000000)),
          pack(from_int(SNG, 16777215)), Single_above_one, D(0)}

FormatOperands == FormatNumbers \cup {stored(1), stored(2)}

NumberToStr ==
    /\ Ready
    /\ \E inp \in FormatOperands, screen_ \in BOOLEAN, write \in BOOLEAN :
          Call("number_to_str", <<inp, screen_, write>>,
               number_to_str(inp, screen_, write, screen))

\* every text number_to_str renders for a number in any mode
Rendered ==
    {number_to_str(v, m[1], m[2], <<>>).text :
        v \in FormatNumbers, m \in BOOLEAN \X BOOLEAN}

StrToNumber ==
    /\ Ready
    /\ \E strval \in Rendered \cup Literals :
          Call("str_to_number", <<strval>>, str_to_number(handler, strval, screen))

Template(tokens, digits_before, decimals) ==
    [tokens |-> tokens, digits_before |-> digits_before, decimals |-> decimals]

Templates ==
    {Template(<<"#", "#">>, 2, 0),
     Template(<<"#", "#", "#", "#">>, 4, 0),
     Template(<<"+", "#", "#">>, 2, 0),
     Template(<<"#", "#", "+">>, 2, 0),
     Template(<<"#", "#", "-">>, 2, 0),
     Template(<<"$", "$", "#", "#">>, 4, 0),
     Template(<<"*", "*", "#", "#">>, 4, 0),
     Template(<<"*", "*", "$", "#", ".", "#", "-">>, 4, 1),
     Template(<<"#", ".", "#", "#">>, 1, 2),
     Template(<<"#", "#", ".">>, 2, 0),
     Template(<<"#", "#", "^", "^", "^", "^">>, 2, 0),
     Template(<<"+", "#", ".", "#", "^", "^", "^", "^">>, 1, 1)}

FormatValues ==
    {S(0), S(1), S(10), S(-10), S(28), S(-28), S(400), S(492), S(-492),
     pack(from_int(SNG, 1234))}

\* the template's own digit counts, and counts around the limit of 24
FormatCalls ==
    {<<v, t.tokens, t.digits_before, t.decimals>> : v \in FormatValues, t \in Templates}
    \cup {<<pack(from_int(SNG, 12345678)), t.tokens, t.digits_before, 0>> :
             t \in {u \in Templates : u.decimals = 0 /\ ~has(u.tokens, "^")}}
    \cup {<<v, <<"#", "#">>, n[1], n[2]>> :
             v \in {S(28), S(492)},
             n \in {<<24, 0>>, <<25, 0>>, <<24, 1>>, <<23, 1>>, <<22, 2>>, <<23, 2>>}}
    \cup {<<v, tokens, n[1], n[2]>> :
             v \in {stored(1), I(7), NoValue},
             tokens \in {<<>>, <<"#", "#">>},
             n \in {<<25, 0>>, <<24, 1>>, <<23, 2>>}}

FormatNumber ==
    /\ Ready
    /\ \E c \in FormatCalls :
          Call("format_number", c, format_number(c[1], c[2], c[3], c[4], screen))

Next ==
    \/ NumberToStr
    \/ StrToNumber
    \/ FormatNumber
    \/ Return
    \/ PauseHandling
    \/ Handle
    \/ Null
    \/ FromBytes
    \/ FromBool
    \/ IntToInteger
    \/ ToInteger
    \/ ToSingle
    \/ ToDouble
    \/ ToMostPrecise
    \/ Negate
    \/ AbsoluteValue
    \/ Add
    \/ Subtract
    \/ DivideInt
    \/ Mod
    \/ Power
    \/ Sqr
    \/ Exp
    \/ BitwiseNot
    \/ BitwiseAnd
    \/ BitwiseOr
    \/ BitwiseXor
    \/ BitwiseEqv
    \/ BitwiseImp
    \/ Equals
    \/ NotEquals
    \/ Gt
    \/ Gte
    \/ Lte
    \/ Lt
    \/ TokeniseNumber

Spec == Init /\ [][Next]_vars

(***************************************************************************)
(* _get_digits one loop iteration at a time.  pc is the loop the call is   *)
(* in: "while_pow10", "while_num", "while_trailing"; result is the frame.  *)
(***************************************************************************)
MaxNum == 12
MaxDigits == 3

\* 0..MaxNum, the neighbourhood of 100 and of 1000, and numbers whose
\* leading digit count exceeds 9 and 207
Nums == (0..MaxNum) \cup {99, 100, 101, 208, 999, 1000}

GetDigitsInit ==
    /\ do_raise = FALSE
    /\ has_screen = TRUE
    /\ screen = <<>>
    /\ before = <<>>
    /\ double_math = FALSE
    /\ pc = "ready"
    /\ op = ""
    /\ args = <<>>
    /\ result = NoResult
    /\ user_function_parsing = {}
    /\ scalars = <<>>
    /\ fn_stack = <<>>

Step(to, f) ==
    /\ pc' = to
    /\ result' = f
    /\ UNCHANGED <<do_raise, has_screen, screen, before, double_math, op, args>>
    /\ UNCHANGED fn_vars

GetDigitsCall ==
    /\ pc = "ready"
    /\ \E num \in Nums, digits \in 0..MaxDigits, remove_trailing \in BOOLEAN :
          /\ pc' = "while_pow10"
          /\ op' = "_get_digits"
          /\ args' = <<num, digits, remove_trailing>>
          /\ result' = get_digits_enter(num, digits)
    /\ UNCHANGED <<do_raise, has_screen, screen, before, double_math>>
    /\ UNCHANGED fn_vars

\* while pow10 >= 1: digit = ord('0')
EnterWhilePow10 ==
    /\ pc = "while_pow10"
    /\ result.pow10 >= 1
    /\ Step("while_num", [result EXCEPT !.digit = ord_0])

LeaveWhilePow10 ==
    /\ pc = "while_pow10"
    /\ ~(result.pow10 >= 1)
    /\ Step("while_trailing", result)

CountDown ==
    /\ pc = "while_num"
    /\ while_num(result)
    /\ Step("while_num", count_down(result))

PutDigit ==
    /\ pc = "while_num"
    /\ ~while_num(result)
    /\ \E f \in {put_digit(result)} :
          Step(IF f.kind = "exception" THEN "done" ELSE "while_pow10", f)

DropTrailing ==
    /\ pc = "while_trailing"
    /\ args[3]
    /\ while_trailing(result.digitstr)
    /\ Step("while_trailing",
            [result EXCEPT !.digitstr = drop_last(@)])

GetDigitsEnd ==
    /\ pc = "while_trailing"
    /\ ~(args[3] /\ while_trailing(result.digitstr))
    /\ Step("done", [result EXCEPT !.kind = "str"])

GetDigitsReturn ==
    /\ pc = "done"
    /\ pc' = "ready"
    /\ op' = ""
    /\ args' = <<>>
    /\ result' = NoResult
    /\ UNCHANGED <<do_raise, has_screen, screen, before, double_math>>
    /\ UNCHANGED fn_vars

GetDigitsNext ==
    \/ GetDigitsCall
    \/ EnterWhilePow10
    \/ LeaveWhilePow10
    \/ CountDown
    \/ PutDigit
    \/ DropTrailing
    \/ GetDigitsEnd
    \/ GetDigitsReturn

\* the interpreter runs a call to its end: a loop iteration that can be
\* taken is taken
GetDigitsSpec ==
    GetDigitsInit /\ [][GetDigitsNext]_vars /\ WF_vars(GetDigitsNext)

(***************************************************************************)
(* functions.py: value_fn, the call of a user-defined function.  The       *)
(* parser, the session's table of user functions and its scalars are not   *)
(* part of the file; a function body is kept as what evaluating it does:   *)
(* it yields the value of a scalar, calls a user function with a value,    *)
(* or raises an error.  A RunError raised anywhere leaves every value_fn   *)
(* in progress at once, as value_fn catches nothing.                       *)
(***************************************************************************)
OUT_OF_MEMORY == "Out of memory"
UNDEFINED_USER_FUNCTION == "Undefined user function"

Body(kind, name, val, err) == [kind |-> kind, name |-> name, val |-> val, err |-> err]

\* session.user_functions: fnname -> (varnames, fncode)
\*   DEF FNA(X) = X            DEF FNB(X) = FNA(2)     DEF FNC(X) = FNC(X)
\*   DEF FND(X) = FNE(X)       DEF FNE(X) = FND(X)
\*   DEF FNF(X) = X + "A"      DEF FNG(X) = FNF(X)     DEF FNH = X
user_functions ==
    [ A |-> [varnames |-> <<"X">>, fncode |-> Body("scalar", "X", NoValue, "")],
      B |-> [varnames |-> <<"X">>, fncode |-> Body("call", "A", I(2), "")],
      C |-> [varnames |-> <<"X">>, fncode |-> Body("call", "C", I(1), "")],
      D |-> [varnames |-> <<"X">>, fncode |-> Body("call", "E", I(1), "")],
      E |-> [varnames |-> <<"X">>, fncode |-> Body("call", "D", I(1), "")],
      F |-> [varnames |-> <<"X">>, fncode |-> Body("raise", "", NoValue, TYPE_MISMATCH)],
      G |-> [varnames |-> <<"X">>, fncode |-> Body("call", "F", I(1), "")],
      H |-> [varnames |-> <<>>, fncode |-> Body("scalar", "X", NoValue, "")] ]

\* the names a call can give: the functions defined and one that is not
FnNames == DOMAIN user_functions \cup {"U"}

\* every user function here is single precision: fnname[-1] is '!'
fn_sigil == SNG

Frame_fn(fnname, varsave, value) ==
    [fnname |-> fnname, varsave |-> varsave, value |-> value]

\* scalars.set(name, value)
scalars_set(sc, name, value) ==
    [n \in DOMAIN sc \cup {name} |-> IF n = name THEN value ELSE sc[n]]

\* for name in varsave: scalars.view(name).copy_from(varsave[name])
scalars_restore(sc, varsave) ==
    [n \in DOMAIN sc |-> IF n \in DOMAIN varsave THEN varsave[n] ELSE sc[n]]

\* value_fn from its first line to the call of the parser on the function
\* body: the outcome is a RunError, or the frame of the call with the
\* scalars and the set as the body finds them
value_fn_enter(fnname, exprs, parsing, sc) ==
    IF fnname \in parsing THEN [kind |-> "RunError", err |-> OUT_OF_MEMORY]
    ELSE IF fnname \notin DOMAIN user_functions
    THEN [kind |-> "RunError", err |-> UNDEFINED_USER_FUNCTION]
    ELSE LET varnames == user_functions[fnname].varnames
             names == {varnames[i] : i \in 1..Len(varnames)}
             varsave == [n \in names \cap DOMAIN sc |-> sc[n]]
         IN  [kind |-> "entered",
              frame |-> Frame_fn(fnname, varsave, NoValue),
              scalars |-> IF Len(varnames) = 1
                          THEN scalars_set(sc, varnames[1], exprs)
                          ELSE sc,
              parsing |-> parsing \cup {fnname}]

\* a scalar read: one that does not exist yet reads as zero
scalars_get(sc, name) == IF name \in DOMAIN sc THEN sc[name] ELSE null(SNG)

\* values.to_type(fnname[-1], value)
to_type(h, typechar, value, scr) ==
    IF typechar = STR THEN pass_string(value, scr)
    ELSE IF typechar = INT THEN to_integer(value, FALSE, scr)
    ELSE IF typechar = SNG THEN to_single(h, value, scr)
    ELSE to_double(h, value, scr)

ArgValues == {I(1), I(2)}

\* the scalar X does not exist, or holds 5
ValueFnInit ==
    /\ do_raise = FALSE
    /\ has_screen = TRUE
    /\ screen = <<>>
    /\ before = <<>>
    /\ double_math = FALSE
    /\ pc = "ready"
    /\ op = ""
    /\ args = <<>>
    /\ result = NoResult
    /\ user_function_parsing = {}
    /\ scalars \in {<<>>, [n \in {"X"} |-> I(5)]}
    /\ fn_stack = <<>>

top == fn_stack[Len(fn_stack)]
fncode == user_functions[top.fnname].fncode

\* a RunError leaves every call in progress
Unwind(code) ==
    /\ pc' = "done"
    /\ result' = RunError(code, screen)
    /\ fn_stack' = <<>>

Enter(e) ==
    /\ fn_stack' = Append(fn_stack, e.frame)
    /\ scalars' = e.scalars
    /\ user_function_parsing' = e.parsing
    /\ pc' = "body"
    /\ result' = NoResult

\* the interpreter meets FN fnname(exprs) in a statement; args keeps the
\* scalars and the set as they were
ValueFn ==
    /\ pc = "ready"
    /\ \E fnname \in FnNames, exprs \in ArgValues :
          /\ op' = "value_fn"
          /\ args' = <<fnname, exprs, scalars, user_function_parsing>>
          /\ \E e \in {value_fn_enter(fnname, exprs, user_function_parsing, scalars)} :
                IF e.kind = "RunError"
                THEN Unwind(e.err) /\ UNCHANGED <<scalars, user_function_parsing>>
                ELSE Enter(e)
    /\ UNCHANGED <<do_raise, has_screen, screen, before, double_math>>

\* the body yields the value of a scalar
BodyScalar ==
    /\ pc = "body"
    /\ top.value = NoValue
    /\ fncode.kind = "scalar"
    /\ fn_stack' = [fn_stack EXCEPT ![Len(fn_stack)].value =
                        scalars_get(scalars, fncode.name)]
    /\ UNCHANGED <<do_raise, has_screen, screen, before, double_math, pc, op, args,
                   result, user_function_parsing, scalars>>

\* the body calls a user function
BodyCall ==
    /\ pc = "body"
    /\ top.value = NoValue
    /\ fncode.kind = "call"
    /\ \E e \in {value_fn_enter(fncode.name, fncode.val, user_function_parsing,
                                scalars)} :
          IF e.kind = "RunError"
          THEN Unwind(e.err) /\ UNCHANGED <<scalars, user_function_parsing>>
          ELSE Enter(e)
    /\ UNCHANGED <<do_raise, has_screen, screen, before, double_math, op, args>>

\* the body raises an error
BodyRaise ==
    /\ pc = "body"
    /\ top.value = NoValue
    /\ fncode.kind = "raise"
    /\ Unwind(fncode.err)
    /\ UNCHANGED <<do_raise, has_screen, screen, before, double_math, op, args,
                   user_function_parsing, scalars>>

\* value_fn from the return of the parser to its own: the name leaves the
\* set, the saved scalars are restored, the value is converted; it goes to
\* the body that called, or to the statement
ValueFnEnd ==
    /\ pc = "body"
    /\ top.value # NoValue
    /\ user_function_parsing' = user_function_parsing \ {top.fnname}
    /\ scalars' = scalars_restore(scalars, top.varsave)
    /\ \E r \in {to_type(handler, fn_sigil, top.value, screen)} :
          IF Failed(r)
          THEN Unwind(r.err)
          ELSE IF Len(fn_stack) > 1
          THEN /\ fn_stack' = [SubSeq(fn_stack, 1, Len(fn_stack) - 1)
                                   EXCEPT ![Len(fn_stack) - 1].value = r.val]
               /\ UNCHANGED <<pc, result>>
          ELSE /\ fn_stack' = <<>>
               /\ pc' = "done"
               /\ result' = r
    /\ UNCHANGED <<do_raise, has_screen, screen, before, double_math, op, args>>

\* the statement ends, with the value or in the error handling of the
\* interpreter; the Functions object and the scalars live on
ValueFnReturn ==
    /\ pc = "done"
    /\ pc' = "ready"
    /\ op' = ""
    /\ args' = <<>>
    /\ result' = NoResult
    /\ UNCHANGED <<do_raise, has_screen, screen, before, double_math>>
    /\ UNCHANGED fn_vars

ValueFnNext ==
    \/ ValueFn
    \/ BodyScalar
    \/ BodyCall
    \/ BodyRaise
    \/ ValueFnEnd
    \/ ValueFnReturn

ValueFnSpec == ValueFnInit /\ [][ValueFnNext]_vars

(***************************************************************************)
(* Properties.  At pc = "done" the state holds the operation called, its   *)
(* operands, its outcome, and the display before and after the call.       *)
(***************************************************************************)
Done(name) == pc = "done" /\ op = name

\* the outcome is a value / the outcome is RunError(code)
Returned == result.kind = "value"
Raised(code) == result.kind = "RunError" /\ result.err = code

\* the number an Integer's two bytes stand for, read signed and unsigned
Unsigned16(v) == v.bytes[1] + 256 * v.bytes[2]
Signed16(v) == IF Unsigned16(v) >= 32768 THEN Unsigned16(v) - 65536 ELSE Unsigned16(v)

IsInteger(v) == v.tag = INT /\ Len(v.bytes) = 2
IsSingle(v) == v.tag = SNG /\ Len(v.bytes) = 4

InInt16(n) == n >= -32768 /\ n <= 32767

\* the Single of whole value n (0 < |n| < 2^24), byte by byte: n = m * 2^k
\* with 2^23 <= m < 2^24 has exponent byte 152 + k and mantissa m
IsSingleOf(v, n) ==
    /\ IsSingle(v)
    /\ \E k \in 0..23 :
          LET m == Abs(n) * 2^k
          IN  /\ m >= 2^23 /\ m < 2^24
              /\ v.bytes[4] = 152 - k
              /\ v.bytes[1] + 256 * v.bytes[2] + 65536 * (v.bytes[3] % 128) = m - 2^23
              /\ (v.bytes[3] >= 128) = (n < 0)

\* a Single or Integer whose value is the whole number n
HoldsWhole(v, n) ==
    IF v.tag = INT THEN IsInteger(v) /\ Signed16(v) = n
    ELSE IF n = 0 THEN IsSingle(v) /\ v.bytes[4] = 0
    ELSE IsSingleOf(v, n)

BothInteger == args[1].tag = INT /\ args[2].tag = INT

\* C1: add and subtract on two Integers return the exact sum and difference,
\* as a Single whenever it lies outside [-32768,32767]; they never wrap
\* modulo 2^16, never raise Overflow and write nothing
C1_AddSubtractExact ==
    (pc = "done" /\ op \in {"add", "subtract"} /\ BothInteger) =>
        LET a == Signed16(args[1])
            b == Signed16(args[2])
            exact == IF op = "add" THEN a + b ELSE a - b
        IN  /\ Returned
            /\ HoldsWhole(result.val, exact)
            /\ ~InInt16(exact) => IsSingle(result.val)
            /\ screen = before

\* 32767 + 1 has given the Single 32768: bytes 00 00 00 90
C1_Witness ==
    /\ Done("add")
    /\ Signed16(args[1]) = 32767 /\ args[1].tag = INT
    /\ Signed16(args[2]) = 1 /\ args[2].tag = INT
    /\ result.val = Value(SNG, <<0, 0, 0, 144>>)

\* C2 as stated: add on two Integers returns an Integer when the sum lies in
\* [-32768,32767] and a Single only when it lies outside
C2_AddRepacksOnlyOutOfRange ==
    (Done("add") /\ BothInteger) =>
        LET sum == Signed16(args[1]) + Signed16(args[2])
        IN  /\ Returned
            /\ InInt16(sum) => IsInteger(result.val)
            /\ IsSingle(result.val) => ~InInt16(sum)

\* C2 amended: add on two Integers always returns a Single holding the exact
\* sum, also when the sum lies in [-32768,32767]
C2_AddIntegersAlwaysSingle ==
    (Done("add") /\ BothInteger) =>
        LET sum == Signed16(args[1]) + Signed16(args[2])
        IN  /\ Returned
            /\ IsSingle(result.val)
            /\ HoldsWhole(result.val, sum)

\* 1 + 2 has given the Single 3: bytes 00 00 40 82
C2_Witness ==
    /\ Done("add")
    /\ BothInteger
    /\ Signed16(args[1]) = 1
    /\ Signed16(args[2]) = 2
    /\ result.val = Value(SNG, <<0, 0, 64, 130>>)

\* the quotient of d by v truncated toward zero
Trunc(d, v) == IF (d >= 0) = (v >= 0) THEN Abs(d) \div Abs(v) ELSE -(Abs(d) \div Abs(v))

\* C3 as stated: for Integer d and non-zero Integer v, mod(d, v) is the
\* Integer d - v * trunc(d / v): zero or of the dividend's sign, and smaller
\* in magnitude than v
C3_ModFollowsDividend ==
    (Done("mod") /\ BothInteger /\ Signed16(args[2]) # 0) =>
        LET d == Signed16(args[1])
            v == Signed16(args[2])
        IN  /\ Returned
            /\ IsInteger(result.val)
            /\ Signed16(result.val) = d - v * Trunc(d, v)
            /\ Abs(Signed16(result.val)) < Abs(v)
            /\ Signed16(result.val) # 0 => (Signed16(result.val) < 0) = (d < 0)

\* the whole number an operand converts to: an Integer as it is, a float
\* rounded to the nearest integer
Converted(v) == IF v.tag = INT THEN Signed16(v) ELSE round_to_int(unpack(v))

\* the operand is a number whose conversion fits an Integer
Converts(v) == v.tag \in {INT, SNG, DBL} /\ InInt16(Converted(v))

\* the operand, taken as it is, is a number below zero
IsNegative(v) ==
    IF v.tag = INT THEN Signed16(v) < 0
    ELSE v.tag \in {SNG, DBL} /\ v.bytes[Len(v.bytes)] # 0
         /\ v.bytes[Len(v.bytes) - 1] >= 128

\* the value of a float type with every mantissa and exponent bit set
MaxMagnitude(tag, neg) ==
    Value(tag, (IF tag = DBL THEN <<255, 255, 255, 255>> ELSE <<>>)
               \o <<255, 255, IF neg THEN 255 ELSE 127, 255>>)

DivisionByZeroCall ==
    /\ pc = "done"
    /\ op \in {"divide_int", "mod"}
    /\ args[1].tag \in {INT, SNG, DBL}
    /\ Converts(args[2])
    /\ Converted(args[2]) = 0

\* C4 as stated: for every numeric dividend and a divisor converting to 0,
\* divide_int and mod under soft policy write one line and return the
\* maximum magnitude, negative exactly when the dividend is negative; under
\* strict policy they raise Division by zero
C4_DivisionByZeroAnyDividend ==
    DivisionByZeroCall =>
        /\ (~do_raise /\ has_screen) =>
              /\ Returned
              /\ screen = Append(before, "Division by zero")
              /\ result.val = MaxMagnitude(SNG, IsNegative(args[1]))
        /\ do_raise => Raised(DIVISION_BY_ZERO) /\ screen = before

\* C4 amended: for every dividend that converts to an Integer d and a
\* divisor converting to 0, divide_int and mod under soft policy write one
\* line and return the Single maximum, negative exactly when d is negative;
\* under strict policy they raise Division by zero and write nothing
C4_DivisionByZero ==
    (DivisionByZeroCall /\ Converts(args[1])) =>
        /\ (~do_raise /\ has_screen) =>
              /\ Returned
              /\ screen = Append(before, "Division by zero")
              /\ result.val = MaxMagnitude(SNG, Converted(args[1]) < 0)
        /\ do_raise => Raised(DIVISION_BY_ZERO) /\ screen = before

\* -7 \ 0 under soft policy has written one line and given the negative
\* Single maximum
C4_Witness ==
    /\ Done("divide_int")
    /\ ~do_raise /\ has_screen
    /\ args[1].tag = INT /\ Signed16(args[1]) = -7
    /\ args[2].tag = INT /\ Signed16(args[2]) = 0
    /\ result.val = MaxMagnitude(SNG, TRUE)
    /\ screen = Append(before, "Division by zero")

\* the error a Python exception class maps to, "" for any other class
MappedError(cls) ==
    CASE cls = "ValueError" -> "Illegal function call"
      [] cls = "OverflowError" -> "Overflow"
      [] cls = "ZeroDivisionError" -> "Division by zero"
      [] OTHER -> ""

\* C5: whatever pause_handling calls came before, handle returns a value,
\* having written exactly one line, if and only if the fault is overflow or
\* division by zero, the flag last set is false and a display exists; in
\* every other case it raises the mapped error and writes nothing
C5_HandleDecidesByState ==
    Done("handle") =>
        LET e == args[1]
            soft == /\ e.err \in {"OverflowError", "ZeroDivisionError"}
                    /\ ~do_raise
                    /\ has_screen
        IN  /\ Returned <=> soft
            /\ Returned => screen = Append(before, MappedError(e.err))
            /\ ~Returned => screen = before
            /\ (~soft /\ MappedError(e.err) # "") => Raised(MappedError(e.err))
            /\ MappedError(e.err) = "" =>
                  result.kind = "exception" /\ result.err = e.err

\* an overflow under soft policy has been absorbed with one line written
C5_Witness ==
    /\ Done("handle")
    /\ args[1].err = "OverflowError"
    /\ ~do_raise /\ has_screen
    /\ Returned
    /\ screen = Append(before, "Overflow")

\* the float operand is a whole odd number
IsOddWhole(v) == is_small(unpack(v)) /\ quarters(unpack(v)) % 8 = 4

\* C6 as stated, for power computed in the type t both operands have: when
\* a soft fault is absorbed the value substituted is the maximum magnitude
\* of t with the sign of the true result, negative for a negative base
\* raised to an odd power
C6_SaturatedKeepsTypeAndSign ==
    (/\ Done("power")
     /\ args[1].tag = args[2].tag
     /\ args[1].tag \in {SNG, DBL}
     /\ args[1].tag = DBL => double_math
     /\ Returned
     /\ screen # before) =>
        result.val = MaxMagnitude(args[1].tag,
                                  IsNegative(args[1]) /\ IsOddWhole(args[2]))

\* C7: int_to_integer followed by integer_to_int gives n back, signed for n
\* in [-32768,32767] and unsigned for n in [0,65535]; the bytes are the
\* little-endian 16 bit two's complement of n, whose unsigned read is
\* n + 65536 for negative n
C7_IntegerRoundTrip ==
    Done("int_to_integer") =>
        LET n == args[1]
            unsigned == args[2]
        IN  /\ (~unsigned /\ InInt16(n)) =>
                  Returned /\ integer_to_int(result.val, FALSE) = n
            /\ (unsigned /\ n >= 0 /\ n <= 65535) =>
                  Returned /\ integer_to_int(result.val, TRUE) = n
            /\ Returned =>
                  /\ IsInteger(result.val)
                  /\ result.val.bytes[1] = ((n + 65536) % 65536) % 256
                  /\ result.val.bytes[2] = ((n + 65536) % 65536) \div 256
            /\ (Returned /\ n < 0) => integer_to_int(result.val, TRUE) = n + 65536

\* -32768 has been stored as 00 80, which reads 32768 unsigned
C7_Witness ==
    /\ Done("int_to_integer")
    /\ args = <<-32768, FALSE>>
    /\ result.val = Value(INT, <<0, 128>>)
    /\ integer_to_int(result.val, TRUE) = 32768
    /\ integer_to_int(result.val, FALSE) = -32768

\* C8 as stated: to_integer on a float rounds to the nearest integer r and
\* fails Overflow exactly when r is outside [-32768,32767], or outside
\* [0,65535] with unsigned requested; otherwise it returns the Integer
\* encoding r; a string fails Type mismatch
C8_UnsignedRejectsNegative ==
    (Done("to_integer") /\ args[1].tag # INT) =>
        LET x == args[1]
            unsigned == args[2]
            r == round_to_int(unpack(x))
            lo == IF unsigned THEN 0 ELSE -32768
            hi == IF unsigned THEN 65535 ELSE 32767
        IN  IF x.tag = STR THEN Raised(TYPE_MISMATCH)
            ELSE IF r < lo \/ r > hi THEN Raised(OVERFLOW)
            ELSE /\ Returned
                 /\ IsInteger(result.val)
                 /\ (IF unsigned THEN Unsigned16(result.val)
                     ELSE Signed16(result.val)) = r

\* C8 amended: to_integer on a float rounds to the nearest integer r and
\* fails Overflow exactly when r is outside [-32768,32767], or outside
\* [-32768,65535] with unsigned requested; otherwise it returns the Integer
\* holding the 16 bit two's complement of r, so that a negative r passes
\* the unsigned check; a string fails Type mismatch
C8_ToIntegerRange ==
    (Done("to_integer") /\ args[1].tag # INT) =>
        LET x == args[1]
            unsigned == args[2]
            r == round_to_int(unpack(x))
            hi == IF unsigned THEN 65535 ELSE 32767
        IN  IF x.tag = STR THEN Raised(TYPE_MISMATCH)
            ELSE /\ is_small(unpack(x)) =>
                        /\ 4 * r - quarters(unpack(x)) <= 2
                        /\ quarters(unpack(x)) - 4 * r <= 2
                 /\ IF r < -32768 \/ r > hi THEN Raised(OVERFLOW)
                    ELSE /\ Returned
                         /\ IsInteger(result.val)
                         /\ Unsigned16(result.val) = (r + 65536) % 65536
                 /\ screen = before

\* the Single -1 with unsigned requested has given the Integer FF FF
C8_Witness ==
    /\ Done("to_integer")
    /\ args = <<Value(SNG, <<0, 0, 128, 129>>), TRUE>>
    /\ result.val = Value(INT, <<255, 255>>)

\* bit i of a 16 bit pattern
Bit(n, i) == (n \div 2^i) % 2

\* bit of the result of a bitwise operation from the bits x, y of its operands
BitOf(name, x, y) ==
    CASE name = "bitwise_and" -> x * y
      [] name = "bitwise_or" -> x + y - x * y
      [] name = "bitwise_xor" -> (x + y) % 2
      [] name = "bitwise_eqv" -> 1 - ((x + y) % 2)
      [] name = "bitwise_imp" -> 1 - x * (1 - y)

\* C9: on Integers the bitwise operations return the Integer whose 16 bit
\* pattern is a AND b, a OR b, a XOR b, NOT (a XOR b), (NOT a) OR b of the
\* operands' patterns and never raise; bitwise_not gives the complemented
\* pattern, which is -a - 1
C9_BitwisePatterns ==
    /\ (/\ pc = "done"
        /\ op \in {"bitwise_and", "bitwise_or", "bitwise_xor", "bitwise_eqv",
                   "bitwise_imp"}
        /\ BothInteger) =>
            /\ Returned
            /\ IsInteger(result.val)
            /\ \A i \in 0..15 :
                  Bit(Unsigned16(result.val), i) =
                      BitOf(op, Bit(Unsigned16(args[1]), i), Bit(Unsigned16(args[2]), i))
    /\ (Done("bitwise_not") /\ args[1].tag = INT) =>
            /\ Returned
            /\ IsInteger(result.val)
            /\ Signed16(result.val) = -Signed16(args[1]) - 1
            /\ \A i \in 0..15 :
                  Bit(Unsigned16(result.val), i) = 1 - Bit(Unsigned16(args[1]), i)

\* FFFF AND 00FF has given 00FF
C9_Witness ==
    /\ Done("bitwise_and")
    /\ args = <<Value(INT, <<255, 255>>), Value(INT, <<255, 0>>)>>
    /\ result.val = Value(INT, <<255, 0>>)

True16 == Value(INT, <<255, 255>>)
False16 == Value(INT, <<0, 0>>)

\* NOT of a truth value
Not16(v) == IF v = True16 THEN False16 ELSE True16

\* the comparison called name, made on l and r in the state at hand
Compare(name, l, r) ==
    CASE name = "lt" -> lt(handler, l, r, before)
      [] name = "equals" -> equals(handler, l, r, before)
      [] name = "gt" -> gt(handler, l, r, before)

\* C10: on two numbers or two strings every comparison returns the Integer
\* -1 or 0, exactly one of lt, equals, gt is -1, and gte, lte, not_equals
\* are NOT lt, NOT gt, NOT equals; on a string and a number, either way
\* round, every comparison fails Type mismatch
C10_Comparisons ==
    (pc = "done" /\ op \in {"equals", "not_equals", "gt", "gte", "lt", "lte"}) =>
        LET l == args[1]
            r == args[2]
        IN  IF (l.tag = STR) # (r.tag = STR)
            THEN Raised(TYPE_MISMATCH) /\ screen = before
            ELSE /\ Returned
                 /\ result.val \in {True16, False16}
                 /\ Signed16(True16) = -1 /\ Signed16(False16) = 0
                 /\ Cardinality({name \in {"lt", "equals", "gt"} :
                                    Compare(name, l, r).val = True16}) = 1
                 /\ op = "gte" => result.val = Not16(Compare("lt", l, r).val)
                 /\ op = "lte" => result.val = Not16(Compare("gt", l, r).val)
                 /\ op = "not_equals" => result.val = Not16(Compare("equals", l, r).val)
                 /\ op \in {"lt", "equals", "gt"} => result = Compare(op, l, r)

\* the Integer 1 and the Single 1 have compared gte and given -1
C10_Witness ==
    /\ Done("gte")
    /\ args = <<Value(INT, <<1, 0>>), Value(SNG, <<0, 0, 0, 129>>)>>
    /\ result.val = True16

\* the bytes of a String operand, read from the string space by its handle
BytesOf(v) == SubSeq(StringTable[v.bytes[2] + 256 * v.bytes[3]], 1, v.bytes[1])

\* s is greater than t in byte-wise lexicographic order: s has the larger
\* byte where they first differ, or t is a proper prefix of s
LexGreater(s, t) ==
    \/ \E i \in 1..Len(s) :
          /\ i <= Len(t)
          /\ s[i] > t[i]
          /\ \A j \in 1..(i - 1) : s[j] = t[j]
    \/ /\ Len(t) < Len(s)
       /\ \A j \in 1..Len(t) : s[j] = t[j]

BothString == args[1].tag = STR /\ args[2].tag = STR

\* C11: on two strings gt is true exactly when the left one is greater in
\* byte-wise lexicographic order, a proper prefix being less than its
\* extension; lt is the same with the sides exchanged, and equals is true
\* exactly for byte-for-byte equal strings, which are neither greater nor less
C11_StringOrder ==
    (pc = "done" /\ op \in {"gt", "lt", "equals"} /\ BothString) =>
        LET s == BytesOf(args[1])
            t == BytesOf(args[2])
        IN  /\ Returned
            /\ op = "gt" => (result.val = True16) = LexGreater(s, t)
            /\ op = "lt" => (result.val = True16) = LexGreater(t, s)
            /\ op = "equals" => (result.val = True16) = (s = t)
            /\ s = t => ~LexGreater(s, t) /\ ~LexGreater(t, s)

\* "AC" has compared greater than "ABC"
C11_Witness ==
    /\ Done("gt")
    /\ BothString
    /\ BytesOf(args[1]) = <<65, 67>>
    /\ BytesOf(args[2]) = <<65, 66, 67>>
    /\ result.val = True16

\* the higher of two numeric tags under Double > Single > Integer
HigherTag(a, b) ==
    IF a = "#" \/ b = "#" THEN "#" ELSE IF a = "!" \/ b = "!" THEN "!" ELSE "%"

\* C12: to_most_precise returns two values of one tag, the higher of the
\* operands' tags under Double > Single > Integer, an operand already of
\* that tag with its bytes unchanged; with a string on either side it fails
\* Type mismatch whatever the other operand is
C12_MostPrecise ==
    Done("to_most_precise") =>
        IF args[1].tag = STR \/ args[2].tag = STR
        THEN Raised(TYPE_MISMATCH)
        ELSE LET t == HigherTag(args[1].tag, args[2].tag)
             IN  /\ result.kind = "pair"
                 /\ result.val.tag = t
                 /\ result.val2.tag = t
                 /\ args[1].tag = t => result.val = args[1]
                 /\ args[2].tag = t => result.val2 = args[2]

\* the Integer 1 and the Double 1 have come back as two Doubles, the second
\* as it was
C12_Witness ==
    /\ Done("to_most_precise")
    /\ args = <<Value(INT, <<1, 0>>), Value(DBL, <<0, 0, 0, 0, 0, 0, 0, 129>>)>>
    /\ result.val = Value(DBL, <<0, 0, 0, 0, 0, 0, 0, 129>>)
    /\ result.val2 = args[2]

\* C13: negate and abs of the Integer -32768 return the Single 32768 and do
\* not raise; of any other Integer n they return the Integer -n and |n|;
\* negating the result of negate gives n back numerically; abs of a number
\* is never negative
C13_NegateAbs ==
    /\ (pc = "done" /\ op \in {"negate", "abs"} /\ args[1].tag = INT) =>
          LET n == Signed16(args[1])
          IN  /\ Returned
              /\ screen = before
              /\ n = -32768 => result.val = Value(SNG, <<0, 0, 0, 144>>)
              /\ (n # -32768 /\ op = "negate") =>
                    IsInteger(result.val) /\ Signed16(result.val) = -n
              /\ (n # -32768 /\ op = "abs") =>
                    IsInteger(result.val) /\ Signed16(result.val) = Abs(n)
              /\ op = "negate" => HoldsWhole(negate(result.val, screen).val, n)
    /\ (Done("abs") /\ args[1].tag \in {INT, SNG, DBL}) =>
          Returned /\ ~IsNegative(result.val)

\* negate of the Integer -32768 has given the Single 32768
C13_Witness ==
    /\ Done("negate")
    /\ args = <<Value(INT, <<0, 128>>)>>
    /\ result.val = Value(SNG, <<0, 0, 0, 144>>)

\* the payload of a Value has the fixed size of its tag
WellSized(v) ==
    v.tag \in {INT, SNG, DBL, STR} /\ Len(v.bytes) = TYPE_TO_SIZE[v.tag]

\* the operations that return Values
ValueOps ==
    {"null", "from_bytes", "from_bool", "int_to_integer", "to_integer",
     "to_single", "to_double", "to_most_precise", "abs", "negate", "add",
     "bitwise_not", "bitwise_and", "bitwise_or", "bitwise_xor", "bitwise_eqv",
     "bitwise_imp"}

\* C14: every Value returned by null, from_bytes, from_bool, int_to_integer,
\* to_integer, to_single, to_double, to_most_precise, abs, negate, add and the
\* bitwise operators has a payload of exactly the fixed size of its tag
\* (Integer 2, Single 4, Double 8, String 3); a widened Single is an 8-byte
\* Double
C14_PayloadSize ==
    /\ TYPE_TO_SIZE = [t \in {STR, INT, SNG, DBL} |->
          CASE t = INT -> 2 [] t = SNG -> 4 [] t = DBL -> 8 [] t = STR -> 3]
    /\ (pc = "done" /\ op \in ValueOps /\ result.kind = "value") =>
          WellSized(result.val)
    /\ (pc = "done" /\ op \in ValueOps /\ result.kind = "pair") =>
          WellSized(result.val) /\ WellSized(result.val2)
    /\ (Done("to_double") /\ args[1].tag = SNG) =>
          Returned /\ result.val.tag = DBL /\ Len(result.val.bytes) = 8
    /\ (Done("to_most_precise") /\ args[1].tag = SNG /\ args[2].tag = DBL) =>
          result.val.tag = DBL /\ Len(result.val.bytes) = 8

\* the Single 1 has been widened to a Double of eight bytes
C14_Witness ==
    /\ Done("to_double")
    /\ args = <<Value(SNG, <<0, 0, 0, 129>>)>>
    /\ result.val = Value(DBL, <<0, 0, 0, 0, 0, 0, 0, 129>>)

\* a decimal number has been tokenised: the stream args[1] was read from
\* TokStart
TokDone ==
    /\ Done("tokenise_number")
    /\ result.kind = "token"
    /\ result.stop \notin {"none", "hex", "oct"}
TokStart == skip_blanks(args[1], 0)

\* the literal read: the accumulated word without whitespace
Literal == trim(result.word)

\* the literal is a whole number: an optional sign and digits, with no
\* point, exponent marker or suffix, and no separator was read
WholeLiteral ==
    /\ TokDone
    /\ ~result.kill
    /\ Literal # <<>>
    /\ \A i \in 1..Len(Literal) :
          \/ is_digit(Literal[i])
          \/ i = 1 /\ Literal[i] \in {"+", "-"} /\ Len(Literal) > 1

RECURSIVE DecimalValue(_)
\* the number a run of digits denotes
DecimalValue(s) ==
    IF s = <<>> THEN 0
    ELSE 10 * DecimalValue(SubSeq(s, 1, Len(s) - 1)) + digit_value(s[Len(s)])

\* the integer value of the whole literal
WholeValue ==
    IF Literal[1] = "-" THEN -DecimalValue(Tail(Literal))
    ELSE IF Literal[1] = "+" THEN DecimalValue(Tail(Literal))
    ELSE DecimalValue(Literal)

\* C15: a whole literal of value n in -32768..32767 is emitted as the
\* compact token when it is one digit character, else as the 1-byte token
\* when n is in 0..255, else as the 2-byte integer token, and token_to_value
\* of the token is the Integer n; a whole literal outside -32768..32767 is
\* emitted as a float token
C15_MinimalIntegerToken ==
    WholeLiteral =>
        LET n == WholeValue
            t == result.token
        IN  /\ (n >= -32768 /\ n <= 32767) =>
                  /\ Len(Literal) = 1 => t = <<17 + n>>
                  /\ (Len(Literal) > 1 /\ n >= 0 /\ n <= 255) => t = <<tk.T_BYTE, n>>
                  /\ (Len(Literal) > 1 /\ (n < 0 \/ n > 255)) =>
                        Len(t) = 3 /\ t[1] = tk.T_INT
                  /\ IsInteger(token_to_value(t))
                  /\ Signed16(token_to_value(t)) = n
            /\ (n < -32768 \/ n > 32767) =>
                  t[1] \in {tk.T_SINGLE, tk.T_DOUBLE}

\* "256" has been tokenised to the 2-byte integer token
C15_Witness ==
    /\ TokDone
    /\ args[1] = <<"2", "5", "6">>
    /\ result.token = <<28, 0, 1>>

\* the literal goes down the float path: it has a point, an exponent
\* marker or a '!' or '#' suffix, or is a whole number outside -32768..32767
FloatLiteral ==
    /\ TokDone
    /\ ~result.kill
    /\ Literal # <<>>
    /\ \/ result.have_point
       \/ result.have_exp
       \/ Literal[Len(Literal)] \in {"!", "#"}
       \/ WholeLiteral /\ (WholeValue < -32768 \/ WholeValue > 32767)

\* the digits of the literal before its exponent marker, by position
MantissaDigits ==
    {i \in 1..Len(Literal) :
        is_digit(Literal[i]) /\ \A j \in 1..i : Literal[j] \notin {"E", "D"}}

\* those from the first non-zero digit on
CountedDigits ==
    {i \in MantissaDigits : \E j \in MantissaDigits : j <= i /\ Literal[j] # "0"}

\* the run of zeros that ends the fractional part
ClosingZeros ==
    {i \in CountedDigits :
        /\ \E p \in 1..i : Literal[p] = "."
        /\ \A j \in MantissaDigits : j >= i => Literal[j] = "0"}

SignificantDigits == Cardinality(CountedDigits) - Cardinality(ClosingZeros)

\* C16: a literal on the float path is encoded as Double exactly when it has
\* a 'D' exponent marker or a '#' suffix, or has eight or more significant
\* digits and no '!' suffix, and as Single otherwise; "1E5" gives the Single
\* 100000 and "1D5" the Double 100000
C16_SingleOrDouble ==
    /\ FloatLiteral =>
          /\ result.token[1] \in {tk.T_SINGLE, tk.T_DOUBLE}
          /\ Len(result.token) = IF result.token[1] = tk.T_DOUBLE THEN 9 ELSE 5
          /\ result.token[1] = tk.T_DOUBLE <=>
                \/ \E i \in 1..Len(Literal) : Literal[i] = "D"
                \/ Literal[Len(Literal)] = "#"
                \/ SignificantDigits >= 8 /\ Literal[Len(Literal)] # "!"
    /\ (TokDone /\ args[1] = <<"1", "E", "5">>) =>
          result.token = <<29, 0, 80, 67, 145>>
    /\ (TokDone /\ args[1] = <<"1", "D", "5">>) =>
          result.token = <<31, 0, 0, 0, 0, 0, 80, 67, 145>>

\* "12345678", of eight significant digits, has been encoded as a Double
C16_Witness ==
    /\ FloatLiteral
    /\ args[1] = <<"1", "2", "3", "4", "5", "6", "7", "8">>
    /\ result.token = <<31, 0, 0, 0, 0, 78, 97, 60, 152>>

\* the character under the cursor as the accumulation loop left it, in
\* upper case; "" at the end of the stream
NextChar == upper(peek(args[1], result.loop_pos))

\* a point, marker or sign c that the rules of the word w do not admit
BreaksRule(w, c) ==
    \/ c = "." /\ \E i \in 1..Len(w) : w[i] \in {".", "E", "D"}
    \/ c \in {"E", "D"} /\ \E i \in 1..Len(w) : w[i] \in {"E", "D"}
    \/ c \in {"+", "-"} /\ w # <<>> /\ w[Len(w)] \notin {"E", "D"}

\* the cursor rests on position p or on the whitespace that precedes it
RestsAt(p) ==
    /\ result.pos <= p
    /\ \A i \in (result.pos + 1)..p : args[1][i] \in number_whitespace
    /\ (result.pos = TokStart \/ args[1][result.pos] \notin number_whitespace
        \/ result.kill)

\* C17: the accumulated word has at most one decimal point, at most one
\* exponent marker, no point after the marker, and a sign only as its first
\* character or right after the marker; every character read is in the
\* word but the separators and a closing '%'; a point, marker or sign stops
\* accumulation exactly when it would break a rule, and is then left
\* unconsumed under the cursor, which ends on it or on the whitespace
\* before it
C17_WordShape ==
    TokDone =>
        LET w == result.word
            p == result.loop_pos
        IN  /\ Cardinality({i \in 1..Len(w) : w[i] = "."}) <= 1
            /\ Cardinality({i \in 1..Len(w) : w[i] \in {"E", "D"}}) <= 1
            /\ \A i, j \in 1..Len(w) : (w[i] \in {"E", "D"} /\ w[j] = ".") => j < i
            /\ \A i \in 1..Len(w) :
                  w[i] \in {"+", "-"} => (i = 1 \/ w[i - 1] \in {"E", "D"})
            /\ Len(w) = (p - TokStart)
                        - Cardinality({i \in (TokStart + 1)..p : args[1][i] \in separators})
                        - (IF result.stop = "percent" THEN 1 ELSE 0)
            /\ (result.stop = "other" /\ NextChar \in {".", "E", "D", "+", "-"}) =>
                  BreaksRule(w, NextChar) /\ RestsAt(p)
            /\ (NextChar # "" /\ BreaksRule(w, NextChar)) =>
                  result.stop \in {"other", "suffix", "percent"}

\* the second point of "1.." has ended accumulation and is under the cursor
C17_Witness ==
    /\ TokDone
    /\ args[1] = <<"1", ".", ".">>
    /\ result.word = <<"1", ".">>
    /\ result.stop = "other"
    /\ result.pos = 2

\* the loop stopped with a marker c under the cursor and an 'L' or 'Q'
\* right after it, having read every character before c
MeetsKeyword(c) ==
    /\ TokDone
    /\ result.stop \notin {"suffix", "percent"}
    /\ NextChar = c
    /\ upper(peek(args[1], result.loop_pos + 1)) \in {"L", "Q"}

\* C18: an 'E' that would be the first exponent marker and is followed by
\* 'L' or 'Q' (in either case) is not consumed: accumulation stops, the
\* token is the one the characters before the 'E' give on their own, and
\* the cursor rests on the 'E' or on the whitespace before it.  A 'D' before
\* 'L' or 'Q' is consumed as the marker: the loop stops on such a 'D' only
\* when a marker was taken before
C18_KeywordException ==
    /\ (MeetsKeyword("E") /\ ~result.have_exp) =>
          /\ result.stop = "keyword"
          /\ \A i \in 1..Len(result.word) : result.word[i] \notin {"E", "D"}
          /\ result.token =
                tokenise_number(handler, SubSeq(args[1], 1, result.loop_pos),
                                TokStart, before).token
          /\ RestsAt(result.loop_pos)
    /\ MeetsKeyword("D") => (result.have_exp /\ result.stop = "other")
    /\ (TokDone /\ result.stop = "keyword") => MeetsKeyword("E")

\* "1EL" has been tokenised to the digit 1 with the cursor on the 'E'
C18_Witness ==
    /\ MeetsKeyword("E")
    /\ args[1] = <<"1", "E", "L">>
    /\ result.token = <<18>>
    /\ result.pos = 1

\* the characters read, from the start to where the loop left the cursor
Consumed == SubSeq(args[1], TokStart + 1, result.loop_pos)

\* the position of the last character read that is not whitespace
LastSolid ==
    LET solid == {i \in (TokStart + 1)..result.loop_pos :
                     args[1][i] \notin number_whitespace}
    IN  IF solid = {} THEN TokStart
        ELSE CHOOSE i \in solid : \A j \in solid : j <= i

\* whitespace among the characters read does not change the token
WhitespaceIgnored ==
    TokDone =>
        result.token = tokenise_number(handler, trim(Consumed), 0, before).token

\* C19: whitespace inside a literal does not change the token, and however
\* accumulation ends the cursor is left right after the last character read
\* that is not whitespace, so that trailing whitespace is not claimed and no
\* other character read is given back; the cursor never ends before the
\* position where tokenising started
C19_TrailingWhitespace ==
    TokDone =>
        /\ WhitespaceIgnored
        /\ result.pos = LastSolid
        /\ result.pos >= TokStart

\* the cursor is after the last character read that is not whitespace unless
\* a '%' was read after whitespace or a separator was read
CursorUnlessPercentOrSeparator ==
    TokDone =>
        /\ result.pos >= TokStart
        /\ (result.pos # LastSolid) =>
              \/ result.kill
              \/ result.stop = "percent" /\ result.word # <<>>
                 /\ result.word[Len(result.word)] \in number_whitespace

\* a separator is among the characters read
SeparatorRead ==
    \E i \in (TokStart + 1)..result.loop_pos : args[1][i] \in separators

\* C20: when a separator 0x1C, 0x1D or 0x1F is read during accumulation the
\* token is the constant 0, whatever else was read before or after it, and
\* the separator does not end accumulation: the loop goes on to the
\* character after it
C20_SeparatorZero ==
    TokDone =>
        /\ SeparatorRead <=> result.kill
        /\ SeparatorRead =>
              /\ result.token = <<17>>
              /\ token_to_value(result.token) = Value(INT, <<0, 0>>)
        /\ \A i \in (TokStart + 1)..result.loop_pos :
              (args[1][i] \in separators /\ i < Len(args[1])) =>
                  \/ result.loop_pos > i
                  \/ result.stop \in {"other", "keyword"}
        /\ \A i \in (TokStart + 1)..result.loop_pos :
              (args[1][i] \in separators /\ i < Len(args[1])
               /\ is_digit(args[1][i + 1])) => result.loop_pos > i

\* "1.5E3" with a separator and then '#' has been tokenised to the constant 0,
\* the loop having gone on past the separator to the '#' 
C20_Witness ==
    /\ TokDone
    /\ args[1] = <<"1", ".", "5", "E", "3", "<US>", "#">>
    /\ result.token = <<17>>
    /\ result.loop_pos = 6

\* the loop came upon a '!' or '#': it read it as the suffix that ends the
\* word, or stopped with it under the cursor
SuffixMet ==
    /\ TokDone
    /\ \/ result.stop = "suffix"
       \/ result.stop = "other" /\ NextChar \in {"!", "#"}

\* the '!' or '#' the loop came upon
SuffixChar ==
    IF result.stop = "suffix" THEN result.word[Len(result.word)] ELSE NextChar

\* the token of the characters before position p, tokenised on their own
TokenBefore(p) ==
    tokenise_number(handler, SubSeq(args[1], 1, p - 1), TokStart, before).token

\* C21 as stated: a '!' or '#' that follows a literal is consumed, ends
\* accumulation and makes the token a Single or a Double, for every form of
\* literal, one with an exponent part included; a '%' that follows is
\* consumed and the token is that of the characters before it
C21_SuffixAnyForm ==
    /\ (SuffixMet /\ ~result.kill) =>
          /\ result.stop = "suffix"
          /\ result.token[1] =
                IF SuffixChar = "!" THEN tk.T_SINGLE ELSE tk.T_DOUBLE
    /\ (TokDone /\ result.stop = "percent") =>
          result.token = TokenBefore(result.loop_pos)

\* C21: a '!' or '#' that follows a literal without an exponent part is
\* consumed, ends accumulation and makes the token a Single or a Double;
\* after a literal with an exponent part it ends accumulation unconsumed and
\* the token is that of the characters before it; a '%' that follows is
\* consumed, ends accumulation, and the token is that of the characters
\* before it; a token of a literal in which a separator was read is the
\* constant 0
C21_Suffix ==
    /\ (SuffixMet /\ ~result.kill /\ ~result.have_exp) =>
          /\ result.stop = "suffix"
          /\ args[1][result.loop_pos] = SuffixChar
          /\ result.token[1] =
                IF SuffixChar = "!" THEN tk.T_SINGLE ELSE tk.T_DOUBLE
    /\ (SuffixMet /\ result.have_exp) =>
          /\ result.stop = "other"
          /\ result.token = TokenBefore(result.loop_pos + 1)
          /\ ~result.kill =>
                result.token[1] =
                    IF \E i \in 1..Len(Literal) : Literal[i] = "D"
                          \/ SignificantDigits >= 8
                    THEN tk.T_DOUBLE ELSE tk.T_SINGLE
    /\ (SuffixMet /\ result.kill) => result.token = <<17>>
    /\ (TokDone /\ result.stop = "percent") =>
          /\ args[1][result.loop_pos] = "%"
          /\ result.token = TokenBefore(result.loop_pos)

\* the '!' after "1D5" has ended accumulation unconsumed and the token is
\* the Double 100000
C21_Witness ==
    /\ SuffixMet
    /\ args[1] = <<"1", "D", "5", "!">>
    /\ result.loop_pos = 3
    /\ result.token = <<31, 0, 0, 0, 0, 0, 80, 67, 145>>

\* a constant that starts with '&' has been tokenised; it is a hex constant
\* when an 'H' follows the '&'
AmpCall == Done("tokenise_number") /\ peek(args[1], TokStart) = "&"
IsHexCall == upper(peek(args[1], TokStart + 1)) = "H"

\* the count of characters up to the first digit position: "&H", or '&' and
\* the 'O' if there is one
AmpPrefix ==
    IF IsHexCall \/ upper(peek(args[1], TokStart + 1)) = "O"
    THEN TokStart + 2 ELSE TokStart + 1

\* a character of the run: a hex digit, or an octal digit or whitespace
InRun(c) ==
    IF IsHexCall THEN is_hexdigit(c) ELSE is_octdigit(c) \/ c \in number_whitespace

\* the end of the maximal run that follows the prefix
RunEnd ==
    CHOOSE q \in AmpPrefix..Len(args[1]) :
        /\ \A i \in (AmpPrefix + 1)..q : InRun(args[1][i])
        /\ q < Len(args[1]) => ~InRun(args[1][q + 1])

RECURSIVE BasedValue(_, _)
\* the number a run of digits denotes in a base
BasedValue(s, base) ==
    IF s = <<>> THEN 0
    ELSE base * BasedValue(SubSeq(s, 1, Len(s) - 1), base) + hex_value(s[Len(s)])

\* the number the digits of the run denote
RunValue ==
    BasedValue(trim(SubSeq(args[1], AmpPrefix + 1, RunEnd)),
               IF IsHexCall THEN 16 ELSE 8)

\* C22: after "&H" the maximal run of hex digits is read and the first
\* other character, whitespace included, is left under the cursor; after
\* '&' and an optional 'O' the octal digits are read and the whitespace
\* among them skipped.  Digits that denote n in 0..65535 (0 for no digits)
\* give the hex or octal token with the two bytes of n; n > 65535 fails
\* Overflow and no token is written
C22_HexOct ==
    AmpCall =>
        /\ RunValue <= 65535 =>
              /\ result.kind = "token"
              /\ result.token =
                    <<IF IsHexCall THEN tk.T_HEX ELSE tk.T_OCT,
                      RunValue % 256, RunValue \div 256>>
              /\ Unsigned16(token_to_value(result.token)) = RunValue
              /\ result.pos = RunEnd
              /\ screen = before
        /\ RunValue > 65535 => Raised(OVERFLOW) /\ screen = before

\* "&HFFFF" has been tokenised to the hex token of 65535
C22_Witness ==
    /\ AmpCall
    /\ args[1] = <<"&", "H", "F", "F", "F", "F">>
    /\ result.token = <<12, 255, 255>>
    /\ result.pos = 6

(***************************************************************************)
(* C28.  Integer division of two Integers.                                 *)
(***************************************************************************)
\* divide_int was called with an Integer dividend and a non-zero Integer
\* divisor
IntegerDivision ==
    /\ Done("divide_int")
    /\ IsInteger(args[1])
    /\ IsInteger(args[2])
    /\ Signed16(args[2]) # 0

\* q is the quotient of d by v truncated toward zero: the remainder is
\* smaller than the divisor and, unless zero, has the dividend's sign
TruncatedQuotient(q, d, v) ==
    LET r == d - q * v
    IN  /\ Abs(r) < Abs(v)
        /\ r = 0 \/ (r > 0) = (d > 0)

\* C28: for every Integer dividend d and non-zero Integer divisor v,
\* divide_int returns the Integer quotient of d by v truncated toward zero,
\* so -7\2 = -3 and 7\-2 = -3; the one quotient outside signed 16 bits,
\* -32768\-1, fails Overflow whether faults are raised or handled softly:
\* no value is returned and nothing is written to the display.
C28_IntegerQuotient ==
    IntegerDivision =>
        LET d == Signed16(args[1])
            v == Signed16(args[2])
        IN  /\ (d = MinInt /\ v = -1) =>
                /\ Raised(OVERFLOW)
                /\ screen = before
            /\ ~(d = MinInt /\ v = -1) =>
                /\ Returned
                /\ IsInteger(result.val)
                /\ TruncatedQuotient(Signed16(result.val), d, v)
                /\ screen = before
            /\ (d = -7 /\ v = 2) => Signed16(result.val) = -3
            /\ (d = 7 /\ v = -2) => Signed16(result.val) = -3

\* -32768\-1 was attempted with faults handled softly and failed Overflow
C28_Witness ==
    /\ IntegerDivision
    /\ Signed16(args[1]) = MinInt
    /\ Signed16(args[2]) = -1
    /\ ~do_raise
    /\ Raised(OVERFLOW)

(***************************************************************************)
(* C29.  Nested float-safe operations: subtract calls add, power calls     *)
(* _call_float_function, to_single and to_double, divide_int coerces its   *)
(* operands inside its own wrapper.                                        *)
(***************************************************************************)
\* a float-safe operation that calls float-safe operations has ended
NestedCall == pc = "done" /\ op \in {"subtract", "power", "divide_int"}

\* faults are handled softly: the strict flag is off and a display exists
SoftPolicy == ~do_raise /\ has_screen

IsFloat(v) == v.tag \in {SNG, DBL}
IsString(v) == v.tag = STR

\* a float of magnitude 2^126 or more, one of magnitude 65536 or more
HugeFloat(v) == IsFloat(v) /\ v.bytes[Len(v.bytes)] = 255
BeyondInteger(v) == IsFloat(v) /\ v.bytes[Len(v.bytes)] >= 145

\* a float that is zero, a number below zero, the Single 1/2
ZeroNumber(v) ==
    IF v.tag = INT THEN Signed16(v) = 0 ELSE IsFloat(v) /\ v.bytes[Len(v.bytes)] = 0
IsHalf(v) == v = S(2)

\* the difference of two huge floats of opposite signs is out of range
SubtractOverflows ==
    /\ Done("subtract")
    /\ HugeFloat(args[1]) /\ HugeFloat(args[2])
    /\ IsNegative(args[1]) # IsNegative(args[2])

\* zero to a negative power divides by zero
PowerDividesByZero ==
    /\ Done("power")
    /\ ZeroNumber(args[1])
    /\ IsNegative(args[2])

\* a negative number to the power 1/2 is outside the domain
PowerDomainError ==
    /\ Done("power")
    /\ IsNegative(args[1])
    /\ IsHalf(args[2])

\* the call meets exactly one soft fault, of this kind
SoftFault(code) ==
    \/ code = OVERFLOW /\ SubtractOverflows
    \/ code = DIVISION_BY_ZERO /\ PowerDividesByZero

\* the value is the maximum magnitude of a float type, with either sign
IsSaturated(v) ==
    \E cls \in {SNG, DBL}, neg \in BOOLEAN : v = pack(signed_max(cls, neg))

\* C29 as stated: when float-safe operations nest, any single floating
\* fault, a domain error included, leaves under soft policy exactly one
\* diagnostic line and the outer operation returns normally
C29_AnyFaultAbsorbed ==
    (/\ NestedCall
     /\ SoftPolicy
     /\ \/ PowerDomainError
        \/ \E code \in soft_types : SoftFault(code)) =>
        /\ Returned
        /\ Len(screen) = Len(before) + 1

\* C29: when float-safe operations nest, a single soft fault (overflow or
\* division by zero) is handled exactly once: under soft policy exactly one
\* diagnostic line is written and the outer operation returns a saturated
\* value; under strict policy, or without a display, the typed fault of the
\* innermost handler leaves the outer wrappers with the same code, nothing
\* written and no value.  A domain error raises Illegal Function Call under
\* either policy with nothing written.  Type Mismatch and Overflow raised by
\* coercion pass the wrappers unchanged under either policy.  No outer
\* wrapper lets a raw exception out, and nothing is ever written under
\* strict policy.
C29_HandledOnce ==
    NestedCall =>
        /\ result.kind \in {"value", "RunError"}
        /\ ~SoftPolicy => screen = before
        /\ \A code \in soft_types :
              SoftFault(code) =>
                  IF SoftPolicy
                  THEN /\ Returned
                       /\ screen = Append(before, message(code))
                       /\ IsSaturated(result.val)
                  ELSE /\ Raised(code)
                       /\ screen = before
        /\ PowerDomainError => Raised(IFC) /\ screen = before
        /\ (IsString(args[1]) \/ (IsInteger(args[1]) /\ IsString(args[2]))) =>
              Raised(TYPE_MISMATCH) /\ screen = before
        /\ (Done("divide_int") /\ BeyondInteger(args[1])) =>
              Raised(OVERFLOW) /\ screen = before

\* the difference of the two Single maxima overflowed inside add under
\* soft policy: one line was written and subtract returned
C29_Witness ==
    /\ SubtractOverflows
    /\ SoftPolicy
    /\ Returned
    /\ screen = Append(before, "Overflow")

(***************************************************************************)
(* C27.  _get_digits.                                                      *)
(***************************************************************************)
GetDigitsDone == pc = "done" /\ op = "_get_digits"

\* the number a text of decimal digit codes stands for
RECURSIVE CodesValue(_)
CodesValue(codes) ==
    IF codes = <<>> THEN 0
    ELSE 10 * CodesValue(drop_last(codes)) + (codes[Len(codes)] - 48)

AllDigitCodes(codes) == \A i \in 1..Len(codes) : codes[i] \in 48..57

\* the text followed by n zeros
ZeroPadded(codes, n) == codes \o [i \in 1..n |-> 48]

\* C27, the result: for 0 <= num < 10^digits and digits >= 1 the text is
\* the decimal numeral of num left-padded with zeros to `digits`
\* characters, every character in '0'..'9'; with remove_trailing the
\* trailing zeros are gone, all of them unless the text would be empty, so
\* at least one character remains; the loop iterations reach the text the
\* function as a whole computes
C27_Numeral ==
    GetDigitsDone =>
        LET num == args[1]
            digits == args[2]
            remove_trailing == args[3]
            text == result.digitstr
        IN  /\ result = _get_digits(num, digits, remove_trailing)
            /\ (digits >= 1 /\ num < 10 ^ digits) =>
                  /\ result.kind = "str"
                  /\ AllDigitCodes(text)
                  /\ Len(text) >= 1
                  /\ Len(text) <= digits
                  /\ CodesValue(ZeroPadded(text, digits - Len(text))) = num
                  /\ ~remove_trailing => Len(text) = digits
                  /\ remove_trailing =>
                        Len(text) = 1 \/ text[Len(text)] # 48

\* C27, termination: every call of _get_digits, for every num >= 0 and
\* digits >= 0, ends
C27_Terminates == (op = "_get_digits" /\ pc # "done") ~> GetDigitsDone

\* C27: _get_digits terminates for every num >= 0 and digits >= 0, and for
\* 0 <= num < 10^digits with digits >= 1 returns exactly the decimal numeral
\* of num, left-padded with zeros to `digits` characters, every character
\* in '0'..'9'; with remove_trailing the trailing zeros are then removed but
\* at least one character always remains
C27_GetDigits == []C27_Numeral /\ C27_Terminates

\* 100 was rendered in three digits with its trailing zeros removed
C27_Witness ==
    /\ GetDigitsDone
    /\ args = <<100, 3, TRUE>>
    /\ result.kind = "str"
    /\ result.digitstr = <<49>>

(***************************************************************************)
(* C30.  value_fn and the set user_function_parsing.                       *)
(***************************************************************************)
\* the names of the user functions whose bodies are being evaluated
Evaluating == {fn_stack[i].fnname : i \in 1..Len(fn_stack)}

ValueFnDone == pc = "done" /\ op = "value_fn"

\* the call was accepted: it was not rejected for recursion or for an
\* undefined name before anything was evaluated
Accepted == args[1] \notin args[4] /\ args[1] \in DOMAIN user_functions

\* every scalar that existed when the call was made holds its value again
ScalarsRestored ==
    \A n \in DOMAIN args[3] :
        n \in {"X"} => (n \in DOMAIN scalars /\ scalars[n] = args[3][n])

\* C30: user_function_parsing holds exactly the names of the user
\* functions whose bodies are being evaluated at that moment; a call of a
\* name in the set fails Out Of Memory with nothing evaluated; and after
\* any call completes, with a value or with an error raised in the body,
\* the name has left the set and every saved scalar is restored, so that no
\* later non-recursive call is rejected as recursive
C30_ParsingSetExact ==
    /\ user_function_parsing = Evaluating
    /\ ValueFnDone =>
          /\ args[1] \in args[4] =>
                /\ Raised(OUT_OF_MEMORY)
                /\ scalars = args[3]
                /\ user_function_parsing = args[4]
          /\ Accepted =>
                /\ args[1] \notin user_function_parsing
                /\ ScalarsRestored
          /\ Raised(OUT_OF_MEMORY) => args[1] \in {"C", "D", "E"}

(***************************************************************************)
(* C25.  number_to_str of an Integer n returns the plain decimal numeral   *)
(* of n, "-" first for a negative n, no type sign and no exponent, after   *)
(* exactly one space if and only if screen mode is on, write mode is off   *)
(* and n >= 0; of a string it fails with Type Mismatch; in screen or write *)
(* mode the text of any number, a float included, holds no "!" and no      *)
(* "#".                                                                    *)
(***************************************************************************)
NumberToStrDone == Done("number_to_str")

\* a run of digits without a superfluous leading zero whose value is n
PlainNumeral(s, n) ==
    /\ s # <<>>
    /\ \A i \in 1..Len(s) : is_digit(s[i])
    /\ Len(s) > 1 => s[1] # "0"
    /\ DecimalValue(s) = n

\* the text t is the numeral of n after the given lead
SignedNumeral(t, lead, n) ==
    /\ Len(t) > Len(lead)
    /\ SubSeq(t, 1, Len(lead)) = lead
    /\ PlainNumeral(SubSeq(t, Len(lead) + 1, Len(t)), Abs(n))

C25_IntegerNumeral ==
    NumberToStrDone =>
        /\ IsInteger(args[1]) =>
              /\ result.kind = "text"
              /\ LET n == integer_to_int(args[1], FALSE)
                     spaced == args[2] /\ ~args[3] /\ n >= 0
                 IN  SignedNumeral(result.text,
                                   IF n < 0 THEN <<"-">>
                                   ELSE IF spaced THEN <<" ">> ELSE <<>>, n)
        /\ IsString(args[1]) => Raised(TYPE_MISMATCH)
        /\ (IsFloat(args[1]) \/ IsInteger(args[1])) /\ (args[2] \/ args[3]) =>
              /\ result.kind = "text"
              /\ ~has(result.text, "!")
              /\ ~has(result.text, "#")

\* a non-negative Integer on the screen
C25_Witness ==
    /\ NumberToStrDone
    /\ args = <<I(7), TRUE, FALSE>>
    /\ result.kind = "text"
    /\ result.text = <<" ", "7">>

(***************************************************************************)
(* C24.  As stated: format_number fails with a fault kind of its own,      *)
(* distinct from Illegal Function Call and the other kinds, exactly when   *)
(* digits_before + decimals > 24.  As the code has it: format_number       *)
(* fails with Illegal Function Call exactly when digits_before + decimals  *)
(* > 24, whatever the value and the template are, and no call with         *)
(* digits_before + decimals <= 24 fails.                                   *)
(***************************************************************************)
FormatNumberDone == Done("format_number")
TooManyDigits == args[3] + args[4] > 24

OwnFaultKind ==
    /\ result.kind = "RunError"
    /\ result.err \notin {TYPE_MISMATCH, OVERFLOW, DIVISION_BY_ZERO, IFC}

C24_RangeFaultOfItsOwn == FormatNumberDone => (OwnFaultKind <=> TooManyDigits)

C24_IllegalFunctionCall ==
    FormatNumberDone =>
        /\ Raised(IFC) <=> TooManyDigits
        /\ ~TooManyDigits => result.kind = "text"

\* a string value and an empty template, neither looked at
C24_Witness ==
    /\ FormatNumberDone
    /\ args = <<stored(1), <<>>, 24, 1>>
    /\ Raised(IFC)

(***************************************************************************)
(* C23.  The result of format_number is either as long as the template,    *)
(* the rendered text (sign, currency sign, digits, trailing sign) padded   *)
(* on the left with "*" if the template holds a "*" and with spaces        *)
(* otherwise, or, exactly when the rendered text is longer than the        *)
(* template, the rendered text after a "%".  With the template "##", 7 is  *)
(* rendered as " 7" and 123 as "%123".                                     *)
(***************************************************************************)
Formatted == FormatNumberDone /\ result.kind = "text"

\* the text without a leading sign, currency sign and trailing sign
Unsigned(r) ==
    LET r1 == IF r # <<>> /\ r[1] \in {"+", "-"} THEN Tail(r) ELSE r
        r2 == IF r1 # <<>> /\ r1[1] = "$" THEN Tail(r1) ELSE r1
    IN  IF r2 # <<>> /\ r2[Len(r2)] \in {"+", "-", " "}
        THEN SubSeq(r2, 1, Len(r2) - 1) ELSE r2

PointAt(r) == IF has(r, ".") THEN CHOOSE i \in 1..Len(r) : r[i] = "." ELSE Len(r) + 1

\* sign, currency sign, the numeral of n with its decimals, trailing sign
RendersWhole(r, n, decimals) ==
    LET u == Unsigned(r)
        p == PointAt(u)
    IN  /\ PlainNumeral(SubSeq(u, 1, p - 1), Abs(n))
        /\ p <= Len(u) => SubSeq(u, p + 1, Len(u)) = zeros(decimals)
        /\ (n < 0) <=> has(r, "-")
        /\ has(args[2], "$") <=> has(r, "$")

WholeFormatValues == {S(0), S(28), S(-28), S(400), S(492), S(-492),
                      pack(from_int(SNG, 1234))}

C23_FitsTemplate ==
    Formatted =>
        LET tokens == args[2]
            t == result.text
            rendered == format_number_text(args[1], tokens, args[3], args[4])
            pad == Len(tokens) - Len(rendered)
        IN  /\ IF Len(rendered) > Len(tokens)
               THEN t = <<"%">> \o rendered
               ELSE /\ Len(t) = Len(tokens)
                    /\ SubSeq(t, pad + 1, Len(t)) = rendered
                    /\ \A i \in 1..pad :
                          t[i] = IF has(tokens, "*") THEN "*" ELSE " "
            /\ args[1] \in WholeFormatValues /\ ~has(tokens, "^") =>
                  RendersWhole(rendered, round_to_int(unpack(args[1])), args[4])
            /\ args = <<S(28), <<"#", "#">>, 2, 0>> => t = <<" ", "7">>
            /\ args = <<S(492), <<"#", "#">>, 2, 0>> => t = <<"%", "1", "2", "3">>

\* 123 does not fit two places
C23_Witness ==
    /\ Formatted
    /\ args = <<S(492), <<"#", "#">>, 2, 0>>
    /\ result.text = <<"%", "1", "2", "3">>

(***************************************************************************)
(* C26.  As stated: for every numeric value v and every mode,              *)
(* str_to_number(number_to_str(v)) is a numeric value equal to v, and for  *)
(* an Integer n it is the Integer n.  As the code has it: the result is a  *)
(* numeric value; for an Integer n it is the Integer n in every mode, the  *)
(* screen form with its leading space and -32768 included; for a float     *)
(* whose value has at most seven significant decimal digits it is equal    *)
(* to v, though an Integer where the text carries no type sign and the     *)
(* value fits one; a Single with more significant digits comes back as     *)
(* the value of its seven digit text, which differs from v.                *)
(***************************************************************************)
StrToNumberDone == Done("str_to_number")

\* the text converted is what number_to_str renders for v in some mode
RenderedFrom(v) ==
    \E m \in BOOLEAN \X BOOLEAN : args[1] = number_to_str(v, m[1], m[2], <<>>).text

SameNumber(a, b) == _bool_eq(handler, a, b, <<>>).num = 1

IsNumber(v) == IsInteger(v) \/ IsFloat(v)

\* floats of at most seven significant digits, and two Singles of more
ShortFloats ==
    WholeSingles \cup {S(1), S(3), S(-10), pack(from_int(SNG, 10000000)), D(0)}
LongSingles == {Single_above_one, pack(from_int(SNG, 16777215))}

====
